---- MODULE Spec2Model ----
(***************************************************************************)
(* Model of the laforge core: the remote execution transport of            *)
(* Connection (UploadExecuteAndDelete, UploadExecuteAndDeleteV2), the      *)
(* derivation of remote paths and log file names, and the Connection       *)
(* object's Mergeable operations and transport dispatch.                   *)
(***************************************************************************)
EXTENDS Integers, Sequences, FiniteSets, TLC

\* most lines one remote command writes to one of its two streams
MaxLines == 2

VARIABLES
  version,      \* "v1" UploadExecuteAndDelete, "v2" UploadExecuteAndDeleteV2
  transport,    \* "winrm" when c.IsWinRM(), else "ssh"
  scriptOK,     \* os.Stat(scriptsrc) succeeds
  logdirOK,     \* os.Stat(logdir) succeeds
  ph,           \* c.ProvisionedHost: "ok", "nil", or "hostnil" (its Host is nil)
  pc,           \* position of the calling goroutine
  cur,          \* the bounded step the caller is in
  err,          \* the function-level variable err, captured by the closures
  result,       \* the value the call returns
  panicking,    \* a nil dereference unwinds the caller
  g,            \* the goroutine of each bounded step: state and remote outcome
  echan,        \* the error channel of each PerformInTimeout call
  fired,        \* steps whose deadline fired before their result was received
  pw,           \* the write ends of the two pipes: "open" / "closed"
  inflight,     \* the write a pipe's writer is blocked in (at most one)
  drain,        \* the two scanner goroutines
  calls,        \* lines handed to j.StandardOutput / j.StandardError, in order
  written,      \* lines the remote commands wrote to rc.Stdout / rc.Stderr
  filesCreated, \* a log file has been opened with O_CREATE
  \* --- the names UploadExecuteAndDelete derives (strings are sequences of
  \*     one-character strings)
  scriptsrc,    \* the local script path
  tmpname,      \* the caller's override of the remote file name
  logdir,       \* the log directory
  derived,      \* filename, logfilename, stdoutfile, stderrfile once computed
  remoteCalls,  \* what the transport was asked to do, in order
  \* --- Connection objects
  conns,        \* the fields of each Connection
  lastCall,     \* the last transport operation and the implementation it ran
  swapErr       \* the value the last Swap returned

wfvars == <<version, transport, scriptOK, logdirOK, ph, pc, cur, err,
            result, panicking, g, echan, fired, pw, inflight, drain, calls,
            written, filesCreated>>

pathvars == <<scriptsrc, tmpname, logdir, derived, remoteCalls>>

connvars == <<conns, lastCall, swapErr>>

VARIABLES
  \* --- the SSH operations of a Connection
  sshop,        \* the operation in progress, "none" between operations
  sshpc,        \* its position
  sshsrc,       \* what os.Stat(src) finds: "missing", "dir" or "file"
  sshsteps,     \* fallible calls left between the defer and the return
  sshOpen,      \* SSH clients that are connected
  sshDefers,    \* the deferred calls of the operation in progress
  sshErr,       \* the error the operation is about to return
  sshLast,      \* the last operation that returned, and how
  sshDone,      \* operations that have returned
  \* --- checksums
  hkind,        \* the kind of the two objects
  hx,           \* an object
  hy,           \* an object of the same kind
  hsum,         \* <<hx.Hash(), hy.Hash()>> once computed
  \* --- a Metadata and the object it wraps
  mChecksum,    \* m.Checksum
  depHash,      \* what m.Dependency.Hash() returns now
  mMemo,        \* CalculateChecksum has run since Checksum was last reset
  depCalls,     \* calls of m.Dependency.Hash() so far
  mLast,        \* the last operation on the Metadata
  \* --- path validation
  vpath,        \* the Path() of the object being validated
  vorig,        \* the path as it was before validation
  verr,         \* what ValidatePath returned
  \* --- identity paths and SetID
  idkind,       \* the kind of the object
  idobj,        \* the object: its ID and the fields SetID reads or writes
  idLast,       \* the last SetID or ClearID: the object before and after, the path returned
  idPrev,       \* the operation before that one
  idSynth,      \* the paths SetID made from the parent chain, latest first (two kept)
  idQuery,      \* the last TypeByPath or ParentLaforgeID call and its result
  \* --- Mergeable objects
  mobjs,        \* two objects: kind, ID, Caller, OnConflict, nested pointers, other fields
  mcall,        \* the last Swap, GetOnConflict or SetOnConflict: receiver, argument, results
  mset,         \* per object, the policy SetOnConflict gave it since it was last replaced
  \* --- operations on objects with nil fields
  nilin,        \* the input: the fields that are nil, whether ID, NetworkID and Checksum are empty, the Swap operand
  nilcall       \* the last operation and how it ended

sshvars == <<sshop, sshpc, sshsrc, sshsteps, sshOpen, sshDefers, sshErr,
             sshLast, sshDone>>

hashvars == <<hkind, hx, hy, hsum>>

metavars == <<mChecksum, depHash, mMemo, depCalls, mLast>>

valvars == <<vpath, vorig, verr>>

idvars == <<idkind, idobj, idLast, idPrev, idSynth, idQuery>>

mergevars == <<mobjs, mcall, mset>>

nilvars == <<nilin, nilcall>>

\* the parts of the state the workflow, the names and the Connection
\* operations never touch
latervars == <<sshvars, hashvars, metavars, valvars, idvars, mergevars,
               nilvars>>

\* what the operations of each later part leave alone
sshfixed == <<wfvars, pathvars, connvars, hashvars, metavars, valvars,
              idvars, mergevars, nilvars>>

hashfixed == <<wfvars, pathvars, connvars, sshvars, metavars, valvars,
               idvars, mergevars, nilvars>>

metafixed == <<wfvars, pathvars, connvars, sshvars, hashvars, valvars,
               idvars, mergevars, nilvars>>

valfixed == <<wfvars, pathvars, connvars, sshvars, hashvars, metavars,
              idvars, mergevars, nilvars>>

idfixed == <<wfvars, pathvars, connvars, sshvars, hashvars, metavars,
             valvars, mergevars, nilvars>>

mergefixed == <<wfvars, pathvars, connvars, sshvars, hashvars, metavars,
                valvars, idvars, nilvars>>

nilfixed == <<wfvars, pathvars, connvars, sshvars, hashvars, metavars,
              valvars, idvars, mergevars>>
vars == <<wfvars, pathvars, connvars, latervars>>

Streams == {"stdout", "stderr"}
Steps == {"upload", "execute", "delete"}
Goroutines == Steps \cup {"prov"}

\* ---------------------------------------------------------------- errors
\* An error value: its class and how many TimeoutExtension wrappers it has.
Err(k) == [w |-> 0, e |-> k]
Nil == Err("nil")
ErrTimeout == Err("TO")

\* NewTimeoutExtension(err): the distinguished wrapper around a step error
NewTimeoutExtension(x) == [w |-> x.w + 1, e |-> x.e]

\* err.(*ssh.ExitError): only a bare exit error has that dynamic type
IsExitError(x) == x.w = 0 /\ x.e \in {"X1", "X2"}

\* Signal() = "" and Msg() = "" and ExitStatus() = 1
Tolerated(x) == IsExitError(x) /\ x.e = "X1"

\* what a remote call of a step can return
Outcomes(s) ==
  IF s = "upload" /\ transport = "ssh"
    THEN {Nil, Err("E"), Err("X1"), Err("X2")}
    ELSE {Nil, Err("E")}

\* closures that assign the captured err (the others declare their own)
SharesErr(s) == s = "upload" \/ (s = "delete" /\ transport = "ssh")

\* steps whose closure opens the log files and wires the pipes to a command
WritesOutput(s) == s = "execute" \/ s = "prov" \/ (s = "delete" /\ transport = "winrm")

\* ------------------------------------------------------------------ Init
\* the call has not begun
WfStart ==
  /\ pc = "start"
  /\ cur = "none"
  /\ err = Nil
  /\ result = Nil
  /\ panicking = FALSE
  /\ g = [s \in Goroutines |-> [st |-> "idle", out |-> Nil]]
  /\ echan = [s \in Steps |-> <<>>]
  /\ fired = {}
  /\ pw = [s \in Streams |-> "open"]
  /\ inflight = [s \in Streams |-> <<>>]
  /\ drain = [s \in Streams |-> "notstarted"]
  /\ calls = [s \in Streams |-> <<>>]
  /\ written = [s \in Streams |-> <<>>]
  /\ filesCreated = FALSE

\* any call: either function, either transport, any state of the local files
WfInit ==
  /\ version \in {"v1", "v2"}
  /\ transport \in {"winrm", "ssh"}
  /\ scriptOK \in BOOLEAN
  /\ logdirOK \in BOOLEAN
  /\ ph \in {"ok", "nil", "hostnil"}
  /\ WfStart

\* what no step of the workflow changes: the arguments and environment of the
\* call, and the state outside the workflow
inputs == <<version, transport, scriptOK, logdirOK, ph, pathvars, connvars,
           latervars>>

SetG(s, st, out) == [g EXCEPT ![s] = [st |-> st, out |-> out]]

Line(stream, s, k) == [stream |-> stream, step |-> s, k |-> k]

\* how many lines step s has written to a stream so far
Count(stream, s) == Cardinality({i \in DOMAIN written[stream] : written[stream][i].step = s})

\* ------------------------------------------------- the calling goroutine
\* Begin with the scanner goroutines started ahead of the os.Stat checks
BeginScannersFirst ==
  /\ pc = "start"
  /\ drain' = [s \in Streams |-> "scanning"]
  /\ IF ~scriptOK \/ ~logdirOK
       THEN /\ result' = Err("STAT")
            /\ pc' = "returned"
            /\ UNCHANGED cur
       ELSE /\ pc' = IF version = "v1" THEN "go" ELSE "v2cfg"
            /\ cur' = IF version = "v1" THEN "upload" ELSE "none"
            /\ UNCHANGED result
  /\ UNCHANGED <<inputs, err, panicking, g, echan, fired, pw, inflight, calls,
                 written, filesCreated>>

\* os.Stat(scriptsrc), os.Stat(logdir); then the pipes, the two scanner
\* goroutines and the deferred join
Begin ==
  /\ pc = "start"
  /\ IF ~scriptOK \/ ~logdirOK
       THEN /\ result' = Err("STAT")
            /\ pc' = "returned"
            /\ UNCHANGED <<drain, cur>>
       ELSE /\ drain' = [s \in Streams |-> "scanning"]
            /\ pc' = IF version = "v1" THEN "go" ELSE "v2cfg"
            /\ cur' = IF version = "v1" THEN "upload" ELSE "none"
            /\ UNCHANGED result
  /\ UNCHANGED <<inputs, err, panicking, g, echan, fired, pw, inflight, calls,
                 written, filesCreated>>

\* PerformInTimeout: run the closure of the current step on its own goroutine
PerformInTimeoutStart ==
  /\ pc = "go"
  /\ g' = SetG(cur, IF WritesOutput(cur) THEN "open1" ELSE "call", Nil)
  /\ pc' = "wait"
  /\ UNCHANGED <<inputs, cur, err, result, panicking, echan, fired, pw, inflight,
                 drain, calls, written, filesCreated>>

\* PerformInTimeout: the closure's value arrives first; err = PerformInTimeout(...)
PerformInTimeoutReceive ==
  /\ pc = "wait"
  /\ echan[cur] # <<>>
  /\ err' = Head(echan[cur])
  /\ echan' = [echan EXCEPT ![cur] = <<>>]
  /\ pc' = "chk"
  /\ UNCHANGED <<inputs, cur, result, panicking, g, fired, pw, inflight, drain,
                 calls, written, filesCreated>>

\* PerformInTimeout: the deadline fires first; err = PerformInTimeout(...)
PerformInTimeoutDeadline ==
  /\ pc = "wait"
  /\ echan[cur] = <<>>
  /\ err' = ErrTimeout
  /\ fired' = fired \cup {cur}
  /\ pc' = "chk"
  /\ UNCHANGED <<inputs, cur, result, panicking, g, echan, pw, inflight, drain,
                 calls, written, filesCreated>>

\* the statement after a step that returned no error
AfterStep ==
  CASE cur = "upload" /\ transport = "winrm" ->
         \* c.ProvisionedHost.Host.Base() in the log call
         IF ph = "ok"
           THEN pc' = "go" /\ cur' = "execute" /\ UNCHANGED <<result, panicking>>
           ELSE pc' = "join1" /\ panicking' = TRUE /\ UNCHANGED <<result, cur>>
    [] cur = "execute" ->
         pc' = "go" /\ cur' = "delete" /\ UNCHANGED <<result, panicking>>
    [] cur = "delete" ->
         pc' = "join1" /\ result' = Nil /\ UNCHANGED <<cur, panicking>>

\* CheckErr without the early return: the error of a step is logged only
CheckErrNoReturn ==
  /\ pc = "chk"
  /\ ~(cur = "upload" /\ transport = "ssh")
  /\ AfterStep
  /\ UNCHANGED <<inputs, err, g, echan, fired, pw, inflight, drain, calls,
                 written, filesCreated>>

\* if err != nil { return err } after a WinRM step, SSH execute, SSH delete
CheckErr ==
  /\ pc = "chk"
  /\ ~(cur = "upload" /\ transport = "ssh")
  /\ IF err # Nil
       THEN pc' = "retread" /\ UNCHANGED <<cur, result, panicking>>
       ELSE AfterStep
  /\ UNCHANGED <<inputs, err, g, echan, fired, pw, inflight, drain, calls,
                 written, filesCreated>>

\* if err != nil { ... } after the SFTP upload
CheckUploadSSH ==
  /\ pc = "chk"
  /\ cur = "upload" /\ transport = "ssh"
  /\ pc' = IF err # Nil THEN "chk2" ELSE "phchk"
  /\ UNCHANGED <<inputs, cur, err, result, panicking, g, echan, fired, pw,
                 inflight, drain, calls, written, filesCreated>>

\* wmerr, ok := err.(*ssh.ExitError) and the test of its Waitmsg
CheckExitError ==
  /\ pc = "chk2"
  /\ pc' = IF Tolerated(err) THEN "phchk" ELSE "retread"
  /\ UNCHANGED <<inputs, cur, err, result, panicking, g, echan, fired, pw,
                 inflight, drain, calls, written, filesCreated>>

\* c.ProvisionedHost == nil, c.ProvisionedHost.Host == nil
CheckProvisionedHost ==
  /\ pc = "phchk"
  /\ IF ph = "ok"
       THEN pc' = "go" /\ cur' = "execute" /\ UNCHANGED result
       ELSE pc' = "join1" /\ result' = Err("PHNIL") /\ UNCHANGED cur
  /\ UNCHANGED <<inputs, err, panicking, g, echan, fired, pw, inflight, drain,
                 calls, written, filesCreated>>

\* return err
ReturnErr ==
  /\ pc = "retread"
  /\ result' = err
  /\ pc' = "join1"
  /\ UNCHANGED <<inputs, cur, err, panicking, g, echan, fired, pw, inflight,
                 drain, calls, written, filesCreated>>

\* the deferred function: <-stdoutdone
JoinStdout ==
  /\ pc = "join1"
  /\ drain["stdout"] = "sending"
  /\ drain' = [drain EXCEPT !["stdout"] = "signaled"]
  /\ pc' = "join2"
  /\ UNCHANGED <<inputs, cur, err, result, panicking, g, echan, fired, pw,
                 inflight, calls, written, filesCreated>>

\* the deferred function: <-stderrdone
JoinStderr ==
  /\ pc = "join2"
  /\ drain["stderr"] = "sending"
  /\ drain' = [drain EXCEPT !["stderr"] = "signaled"]
  /\ pc' = "join3"
  /\ UNCHANGED <<inputs, cur, err, result, panicking, g, echan, fired, pw,
                 inflight, calls, written, filesCreated>>

\* JoinWait without wg.Wait()
JoinNoWait ==
  /\ pc = "join3"
  /\ pc' = IF panicking THEN "crashed" ELSE "returned"
  /\ UNCHANGED <<inputs, cur, err, result, panicking, g, echan, fired, pw,
                 inflight, drain, calls, written, filesCreated>>

\* the deferred function: wg.Wait(), after which the call yields control
JoinWait ==
  /\ pc = "join3"
  /\ \A s \in Streams : drain[s] = "done"
  /\ pc' = IF panicking THEN "crashed" ELSE "returned"
  /\ UNCHANGED <<inputs, cur, err, result, panicking, g, echan, fired, pw,
                 inflight, drain, calls, written, filesCreated>>
\* ------------------------------------------------- the step goroutines
\* os.OpenFile(stderrfile, O_APPEND|O_CREATE|O_WRONLY) in a closure
OpenStderrLog(s) ==
  /\ g[s].st = "open1"
  /\ \/ /\ filesCreated' = TRUE
        /\ g' = SetG(s, "open2", Nil)
        /\ UNCHANGED echan
     \/ /\ echan' = [echan EXCEPT ![s] = <<Err("OPEN")>>]
        /\ g' = SetG(s, "done", Nil)
        /\ UNCHANGED filesCreated
  /\ UNCHANGED <<inputs, pc, cur, err, result, panicking, fired, pw, inflight,
                 drain, calls, written>>

\* os.OpenFile(stdoutfile, O_APPEND|O_CREATE|O_WRONLY) in a closure
OpenStdoutLog(s) ==
  /\ g[s].st = "open2"
  /\ \/ /\ g' = SetG(s, "call", Nil)
        /\ UNCHANGED echan
     \/ /\ echan' = [echan EXCEPT ![s] = <<Err("OPEN")>>]
        /\ g' = SetG(s, "done", Nil)
  /\ UNCHANGED <<inputs, pc, cur, err, result, panicking, fired, pw, inflight,
                 drain, calls, written, filesCreated>>

\* the remote command writes a line to io.MultiWriter(pipe, logfile): the
\* write blocks in the pipe until the scanner takes it; on a closed pipe it
\* fails and the line goes nowhere
WriteLine(s, stream) ==
  /\ WritesOutput(s)
  /\ g[s].st = "call"
  /\ inflight[stream] = <<>>
  /\ Count(stream, s) < MaxLines
  /\ written' = [written EXCEPT ![stream] =
                   Append(@, Line(stream, s, Count(stream, s) + 1))]
  /\ inflight' = IF pw[stream] = "open"
                   THEN [inflight EXCEPT ![stream] =
                           <<Line(stream, s, Count(stream, s) + 1)>>]
                   ELSE inflight
  /\ UNCHANGED <<inputs, pc, cur, err, result, panicking, g, echan, fired, pw,
                 drain, calls, filesCreated>>

\* the remote call of a step returns (UploadWinRM, UploadScriptSFTP,
\* ExecuteCommandWinRM, ExecuteCommandSSH, DeleteScriptSFTP, Provision)
CallReturn(s, o) ==
  /\ g[s].st = "call"
  /\ o \in Outcomes(s)
  /\ \A stream \in Streams : inflight[stream] = <<>>
  /\ g' = SetG(s, IF s = "prov" THEN "ret" ELSE IF SharesErr(s) THEN "wr" ELSE "snd", o)
  /\ UNCHANGED <<inputs, pc, cur, err, result, panicking, echan, fired, pw,
                 inflight, drain, calls, written, filesCreated>>

\* err = c.UploadWinRM(...) and the like: the closure assigns the captured err
WriteSharedErr(s) ==
  /\ g[s].st = "wr"
  /\ err' = g[s].out
  /\ g' = SetG(s, "snd", g[s].out)
  /\ UNCHANGED <<inputs, pc, cur, result, panicking, echan, fired, pw, inflight,
                 drain, calls, written, filesCreated>>

\* the value a closure sends on e: it tests err, the captured one or its own
SentValue(s) ==
  LET v == IF SharesErr(s) THEN err ELSE g[s].out
  IN IF v # Nil THEN NewTimeoutExtension(v) ELSE Nil

\* e <- NewTimeoutExtension(err) or e <- nil
SendResult(s) ==
  /\ g[s].st = "snd"
  /\ echan' = [echan EXCEPT ![s] = <<SentValue(s)>>]
  /\ g' = SetG(s, IF s = "execute" THEN "cl1" ELSE "done", g[s].out)
  /\ UNCHANGED <<inputs, pc, cur, err, result, panicking, fired, pw, inflight,
                 drain, calls, written, filesCreated>>

\* the execute closure's deferred debugstderrpw.Close(); a write blocked in
\* the pipe returns ErrClosedPipe
CloseStderrPipe ==
  /\ g["execute"].st = "cl1"
  /\ pw' = [pw EXCEPT !["stderr"] = "closed"]
  /\ inflight' = [inflight EXCEPT !["stderr"] = <<>>]
  /\ g' = SetG("execute", "cl2", g["execute"].out)
  /\ UNCHANGED <<inputs, pc, cur, err, result, panicking, echan, fired, drain,
                 calls, written, filesCreated>>

\* the execute closure's deferred debugstdoutpw.Close()
CloseStdoutPipe ==
  /\ g["execute"].st = "cl2"
  /\ pw' = [pw EXCEPT !["stdout"] = "closed"]
  /\ inflight' = [inflight EXCEPT !["stdout"] = <<>>]
  /\ g' = SetG("execute", "done", g["execute"].out)
  /\ UNCHANGED <<inputs, pc, cur, err, result, panicking, echan, fired, drain,
                 calls, written, filesCreated>>

\* ------------------------------------------------ the scanner goroutines
\* the callback a scanner goroutine calls for the pipe it reads
CallbackOf(stream) == stream

\* for scanner.Scan() { j.StandardOutput(scanner.Text()) }
Deliver(stream) ==
  /\ drain[stream] = "scanning"
  /\ pw[stream] = "open"
  /\ inflight[stream] # <<>>
  /\ calls' = [calls EXCEPT ![CallbackOf(stream)] = Append(@, Head(inflight[stream]))]
  /\ inflight' = [inflight EXCEPT ![stream] = <<>>]
  /\ UNCHANGED <<inputs, pc, cur, err, result, panicking, g, echan, fired, pw,
                 drain, written, filesCreated>>

\* Scan() returns false at the end of the pipe; the goroutine goes to
\* stdoutdone <- struct{}{}
ScanEOF(stream) ==
  /\ drain[stream] = "scanning"
  /\ pw[stream] = "closed"
  /\ drain' = [drain EXCEPT ![stream] = "sending"]
  /\ UNCHANGED <<inputs, pc, cur, err, result, panicking, g, echan, fired, pw,
                 inflight, calls, written, filesCreated>>

\* defer wg.Done()
WgDone(stream) ==
  /\ drain[stream] = "signaled"
  /\ drain' = [drain EXCEPT ![stream] = "done"]
  /\ UNCHANGED <<inputs, pc, cur, err, result, panicking, g, echan, fired, pw,
                 inflight, calls, written, filesCreated>>

\* ------------------------------------------- UploadExecuteAndDeleteV2
\* the communicator config: the SSH key lookup and the label
V2Config ==
  /\ pc = "v2cfg"
  /\ \/ \* neither IdentityFile nor IdentityFileRef locates the private key
        /\ transport = "ssh"
        /\ pc' = "join1" /\ result' = Err("KEY") /\ UNCHANGED panicking
     \/ \* c.ProvisionedHost.Base() in the label
        IF ph = "nil"
          THEN pc' = "join1" /\ panicking' = TRUE /\ UNCHANGED result
          ELSE pc' = "v2open1" /\ UNCHANGED <<result, panicking>>
  /\ UNCHANGED <<inputs, cur, err, g, echan, fired, pw, inflight, drain, calls,
                 written, filesCreated>>

\* os.OpenFile(stderrfile, ...)
V2OpenStderrLog ==
  /\ pc = "v2open1"
  /\ \/ pc' = "v2open2" /\ filesCreated' = TRUE /\ UNCHANGED result
     \/ pc' = "join1" /\ result' = Err("OPEN") /\ UNCHANGED filesCreated
  /\ UNCHANGED <<inputs, cur, err, panicking, g, echan, fired, pw, inflight,
                 drain, calls, written>>

\* os.OpenFile(stdoutfile, ...); then defer the Close of both pipe writers
V2OpenStdoutLog ==
  /\ pc = "v2open2"
  /\ \/ pc' = "v2new" /\ UNCHANGED result
     \/ pc' = "join1" /\ result' = Err("OPEN")
  /\ UNCHANGED <<inputs, cur, err, panicking, g, echan, fired, pw, inflight,
                 drain, calls, written, filesCreated>>

\* provisioner.New(...), and the call of prov.Provision()
V2New ==
  /\ pc = "v2new"
  /\ \/ pc' = "v2cl1" /\ result' = Err("E") /\ UNCHANGED g
     \/ pc' = "v2prov" /\ g' = SetG("prov", "call", Nil) /\ UNCHANGED result
  /\ UNCHANGED <<inputs, cur, err, panicking, echan, fired, pw, inflight, drain,
                 calls, written, filesCreated>>

\* return prov.Provision()
V2Provisioned ==
  /\ pc = "v2prov"
  /\ g["prov"].st = "ret"
  /\ result' = g["prov"].out
  /\ g' = SetG("prov", "done", g["prov"].out)
  /\ pc' = "v2cl1"
  /\ UNCHANGED <<inputs, cur, err, panicking, echan, fired, pw, inflight, drain,
                 calls, written, filesCreated>>

\* deferred debugstderrpw.Close()
V2CloseStderrPipe ==
  /\ pc = "v2cl1"
  /\ pw' = [pw EXCEPT !["stderr"] = "closed"]
  /\ pc' = "v2cl2"
  /\ UNCHANGED <<inputs, cur, err, result, panicking, g, echan, fired, inflight,
                 drain, calls, written, filesCreated>>

\* deferred debugstdoutpw.Close()
V2CloseStdoutPipe ==
  /\ pc = "v2cl2"
  /\ pw' = [pw EXCEPT !["stdout"] = "closed"]
  /\ pc' = "join1"
  /\ UNCHANGED <<inputs, cur, err, result, panicking, g, echan, fired, inflight,
                 drain, calls, written, filesCreated>>

\* -------------------------------------------------------- specification
Next ==
  \/ Begin
  \/ PerformInTimeoutStart
  \/ PerformInTimeoutReceive
  \/ PerformInTimeoutDeadline
  \/ CheckErr
  \/ CheckUploadSSH
  \/ CheckExitError
  \/ CheckProvisionedHost
  \/ ReturnErr
  \/ JoinStdout
  \/ JoinStderr
  \/ JoinWait
  \/ \E s \in Steps : OpenStderrLog(s)
  \/ \E s \in Steps : OpenStdoutLog(s)
  \/ \E s \in Goroutines, stream \in Streams : WriteLine(s, stream)
  \/ \E s \in Goroutines, o \in {Nil, Err("E"), Err("X1"), Err("X2")} : CallReturn(s, o)
  \/ \E s \in Steps : WriteSharedErr(s)
  \/ \E s \in Steps : SendResult(s)
  \/ CloseStderrPipe
  \/ CloseStdoutPipe
  \/ \E stream \in Streams : Deliver(stream)
  \/ \E stream \in Streams : ScanEOF(stream)
  \/ \E stream \in Streams : WgDone(stream)
  \/ V2Config
  \/ V2OpenStderrLog
  \/ V2OpenStdoutLog
  \/ V2New
  \/ V2Provisioned
  \/ V2CloseStderrPipe
  \/ V2CloseStdoutPipe

\* ================================================== names and paths
\* longest script path and longest tmpname tried
MaxSrcLen == 3
MaxNameLen == 5

\* all strings over an alphabet up to a length
RECURSIVE StringsUpTo(_, _)
StringsUpTo(alphabet, n) ==
  IF n = 0 THEN {<<>>}
  ELSE LET shorter == StringsUpTo(alphabet, n - 1)
       IN shorter \cup {Append(t, c) : t \in shorter, c \in alphabet}

UnixSeparator == "/"
WindowsSeparator == "\\"

\* index of the first / of the last occurrence of character c in s, 0 if none
IndexOf(s, c) ==
  IF \E i \in 1..Len(s) : s[i] = c
    THEN CHOOSE i \in 1..Len(s) : s[i] = c /\ \A j \in 1..(i - 1) : s[j] # c
    ELSE 0

LastIndexOf(s, c) ==
  IF \E i \in 1..Len(s) : s[i] = c
    THEN CHOOSE i \in 1..Len(s) : s[i] = c /\ \A j \in (i + 1)..Len(s) : s[j] # c
    ELSE 0

HasPrefix(s, pre) == Len(s) >= Len(pre) /\ SubSeq(s, 1, Len(pre)) = pre

\* strings.Split(s, sep) for a one-character separator
RECURSIVE SplitBy(_, _)
SplitBy(s, sep) ==
  LET i == IndexOf(s, sep)
  IN IF i = 0 THEN <<s>>
     ELSE <<SubSeq(s, 1, i - 1)>> \o SplitBy(SubSeq(s, i + 1, Len(s)), sep)

\* strings.Join(elems, sep)
RECURSIVE JoinBy(_, _)
JoinBy(elems, sep) ==
  IF elems = <<>> THEN <<>>
  ELSE IF Len(elems) = 1 THEN elems[1]
  ELSE elems[1] \o <<sep>> \o JoinBy(Tail(elems), sep)

\* the elements Clean keeps: empty and "." elements go, ".." takes the
\* element before it away, and ".." at the root goes
RECURSIVE CleanElems(_, _, _)
CleanElems(elems, kept, rooted) ==
  IF elems = <<>> THEN kept
  ELSE LET e == Head(elems)
           rest == Tail(elems)
       IN IF e = <<>> \/ e = <<".">> THEN CleanElems(rest, kept, rooted)
          ELSE IF e = <<".", ".">>
            THEN IF kept # <<>> /\ kept[Len(kept)] # <<".", ".">>
                   THEN CleanElems(rest, SubSeq(kept, 1, Len(kept) - 1), rooted)
                   ELSE IF rooted THEN CleanElems(rest, kept, rooted)
                   ELSE CleanElems(rest, Append(kept, e), rooted)
          ELSE CleanElems(rest, Append(kept, e), rooted)

\* Renderer.Clean: the shortest path naming the same file, by lexical
\* processing; vol is the volume name the path starts with (<<>> if none)
Clean(sep, vol, path) ==
  LET rest == SubSeq(path, Len(vol) + 1, Len(path))
      rooted == rest # <<>> /\ rest[1] = sep
      out == (IF rooted THEN <<sep>> ELSE <<>>)
               \o JoinBy(CleanElems(SplitBy(rest, sep), <<>>, rooted), sep)
  IN vol \o (IF out = <<>> THEN <<".">> ELSE out)

\* elems from its first non-empty element on
RECURSIVE DropEmpty(_)
DropEmpty(elems) ==
  IF elems = <<>> THEN <<>>
  ELSE IF Head(elems) = <<>> THEN DropEmpty(Tail(elems))
  ELSE elems

\* Renderer.Join: the elements from the first non-empty one, joined and cleaned
Join(sep, vol, elems) ==
  IF DropEmpty(elems) = <<>> THEN <<>>
  ELSE Clean(sep, vol, JoinBy(DropEmpty(elems), sep))

\* s without its trailing separators
RECURSIVE TrimTrailing(_, _)
TrimTrailing(s, sep) ==
  IF s # <<>> /\ s[Len(s)] = sep THEN TrimTrailing(SubSeq(s, 1, Len(s) - 1), sep)
  ELSE s

\* Renderer.Base: the last element of the path
Base(sep, path) ==
  IF path = <<>> THEN <<".">>
  ELSE LET t == TrimTrailing(path, sep)
           last == SubSeq(t, LastIndexOf(t, sep) + 1, Len(t))
       IN IF last = <<>> THEN <<sep>> ELSE last

\* Renderer.Ext: the suffix of the last element from its last dot on
Ext(sep, path) ==
  LET last == SubSeq(path, LastIndexOf(path, sep) + 1, Len(path))
      i == LastIndexOf(last, ".")
  IN IF i = 0 THEN <<>> ELSE SubSeq(last, i, Len(last))

\* strings.Replace(s, old, "", -1): s without the occurrences of old, taken
\* from left to right
RECURSIVE RemoveEvery(_, _)
RemoveEvery(s, old) ==
  IF old = <<>> \/ Len(s) < Len(old) THEN s
  ELSE IF HasPrefix(s, old) THEN RemoveEvery(SubSeq(s, Len(old) + 1, Len(s)), old)
  ELSE <<Head(s)>> \o RemoveEvery(Tail(s), old)

RootDir == <<"/", "r", "o", "o", "t">>
DriveC == <<"C", ":">>
StdoutLogSuffix == <<".", "s", "t", "d", "o", "u", "t", ".", "l", "o", "g">>
StderrLogSuffix == <<".", "s", "t", "d", "e", "r", "r", ".", "l", "o", "g">>
DelCommand == <<"d", "e", "l", " ">>

\* Filename that ignores the override
FilenameOfSource(src, tmp) == Base(UnixSeparator, src)

\* filename := currfp.Base(scriptsrc); if tmpname != "" { filename = tmpname }
Filename(src, tmp) == IF tmp # <<>> THEN tmp ELSE Base(UnixSeparator, src)

\* logfilename := strings.Replace(filename, currfp.Ext(filename), ``, -1)
LogFilename(filename) == RemoveEvery(filename, Ext(UnixSeparator, filename))

\* logprefix := currfp.Join(logdir, logfilename)
LogPrefix(dir, logfilename) == Join(UnixSeparator, <<>>, <<dir, logfilename>>)

\* FinalPath that places the file under /root on either transport
FinalPathUnderRoot(tr, filename) == Join(UnixSeparator, <<>>, <<RootDir, filename>>)

\* finalpath := winfp.Join(`C:`, filename) / nixfp.Join(`/root`, filename)
FinalPath(tr, filename) ==
  IF tr = "winrm" THEN Join(WindowsSeparator, DriveC, <<DriveC, filename>>)
  ELSE Join(UnixSeparator, <<>>, <<RootDir, filename>>)

NoNames == [filename |-> <<>>, logfilename |-> <<>>, stdoutfile |-> <<>>,
            stderrfile |-> <<>>, finalpath |-> <<>>]

PathInit ==
  /\ scriptsrc \in StringsUpTo({"a", ".", "/"}, MaxSrcLen) \ {<<>>}
  /\ tmpname \in StringsUpTo({"a", "."}, MaxNameLen)
  /\ logdir \in {<<"/", "t">>, <<"t", "/">>}
  /\ derived = NoNames
  /\ remoteCalls = <<>>

\* the path part when a behaviour is not about it
PathIdle ==
  /\ scriptsrc = <<"a">>
  /\ tmpname = <<>>
  /\ logdir = <<"/", "t">>
  /\ derived = NoNames
  /\ remoteCalls = <<>>

pathfixed == <<wfvars, connvars, latervars, scriptsrc, tmpname, logdir>>

\* the names computed before the pipes are made, and finalpath
DeriveNames ==
  /\ derived = NoNames
  /\ LET filename == Filename(scriptsrc, tmpname)
         logfilename == LogFilename(filename)
         logprefix == LogPrefix(logdir, logfilename)
     IN derived' = [filename |-> filename,
                    logfilename |-> logfilename,
                    stdoutfile |-> logprefix \o StdoutLogSuffix,
                    stderrfile |-> logprefix \o StderrLogSuffix,
                    finalpath |-> FinalPath(transport, filename)]
  /\ UNCHANGED <<pathfixed, remoteCalls>>

\* c.UploadWinRM(scriptsrc, finalpath) / c.UploadScriptSFTP(scriptsrc, finalpath)
UploadCall ==
  /\ derived # NoNames
  /\ Len(remoteCalls) = 0
  /\ remoteCalls' = <<[op |-> "upload", arg |-> derived.finalpath]>>
  /\ UNCHANGED <<pathfixed, derived>>

\* rc.Command = finalpath; c.ExecuteCommandWinRM(rc) / c.ExecuteCommandSSH(rc)
ExecuteCall ==
  /\ Len(remoteCalls) = 1
  /\ remoteCalls' = Append(remoteCalls, [op |-> "execute", arg |-> derived.finalpath])
  /\ UNCHANGED <<pathfixed, derived>>

\* delrc.Command = "del " + finalpath over WinRM / c.DeleteScriptSFTP(finalpath)
DeleteCall ==
  /\ Len(remoteCalls) = 2
  /\ remoteCalls' =
       Append(remoteCalls,
              IF transport = "winrm"
                THEN [op |-> "execute", arg |-> DelCommand \o derived.finalpath]
                ELSE [op |-> "delete", arg |-> derived.finalpath])
  /\ UNCHANGED <<pathfixed, derived>>

PathNext ==
  \/ DeriveNames
  \/ UploadCall
  \/ ExecuteCall
  \/ DeleteCall

\* ===================================================== Connection
ConnIds == {1, 2}
Policies == {[do |-> "overwrite", append |-> FALSE], [do |-> "default", append |-> TRUE]}
Callers == {"envfile"}
ConnBase == <<"c", "o", "n", "n">>

\* a Swap operand that is not a Connection (a *Command, say)
OtherKind == 0

\* the path of the ProvisionedHost that owns connection i
HostPath(i) == IF i = 1 THEN <<"/", "h", "1">> ELSE <<"/", "h", "2">>

\* ProvisionedHost.CreateConnection: a Connection for a host, with the one
\* auth config that fits the host's operating system and no ID yet
CreateConnection(i, os) ==
  [ID |-> <<>>,
   RemoteAddr |-> i,
   SSHAuthConfig |-> IF os = "windows" THEN <<>> ELSE <<i>>,
   WinRMAuthConfig |-> IF os = "windows" THEN <<i>> ELSE <<>>,
   OnConflict |-> <<>>,
   ProvisionedHost |-> HostPath(i),
   Caller |-> "none"]

IsSSH(c) == c.SSHAuthConfig # <<>>

IsWinRM(c) == c.WinRMAuthConfig # <<>>

NoCall == [op |-> "none", impl |-> "none", IsSSH |-> FALSE, IsWinRM |-> FALSE]

ConnInit ==
  /\ conns \in {[i \in ConnIds |-> CreateConnection(i, os[i])] :
                  os \in [ConnIds -> {"windows", "linux"}]}
  /\ lastCall = NoCall
  /\ swapErr = "none"

\* the Connection part when a behaviour is not about it
ConnIdle ==
  /\ conns = [i \in ConnIds |-> CreateConnection(i, "linux")]
  /\ lastCall = NoCall
  /\ swapErr = "none"

connfixed == <<wfvars, pathvars, latervars>>

\* Connection.SetID
SetID(i) ==
  /\ conns' = [conns EXCEPT ![i].ID =
                 IF @ = <<>>
                   THEN Join(UnixSeparator, <<>>, <<conns[i].ProvisionedHost, ConnBase>>)
                   ELSE @]
  /\ UNCHANGED <<connfixed, lastCall, swapErr>>

\* Connection.SetOnConflict
SetOnConflict(i, o) ==
  /\ conns' = [conns EXCEPT ![i].OnConflict = <<o>>]
  /\ UNCHANGED <<connfixed, lastCall, swapErr>>

\* Connection.SetCaller
SetCaller(i, ca) ==
  /\ conns' = [conns EXCEPT ![i].Caller = ca]
  /\ UNCHANGED <<connfixed, lastCall, swapErr>>

\* Swap that copies the operand field by field and forgets SSHAuthConfig
SwapForgetsSSH(i, m) ==
  /\ IF m \in ConnIds
       THEN /\ conns' = [conns EXCEPT ![i] =
                           [conns[m] EXCEPT !.SSHAuthConfig = conns[i].SSHAuthConfig]]
            /\ swapErr' = "nil"
       ELSE /\ swapErr' = "ErrSwapTypeMismatch"
            /\ UNCHANGED conns
  /\ UNCHANGED <<connfixed, lastCall>>

\* Connection.Swap: m is another Connection, or a Mergeable of another kind
Swap(i, m) ==
  /\ IF m \in ConnIds
       THEN /\ conns' = [conns EXCEPT ![i] = conns[m]]
            /\ swapErr' = "nil"
       ELSE /\ swapErr' = "ErrSwapTypeMismatch"
            /\ UNCHANGED conns
  /\ UNCHANGED <<connfixed, lastCall>>

\* if c.IsWinRM() { WinRM implementation } else { SSH implementation }
Dispatch(c) == IF IsWinRM(c) THEN "WinRM" ELSE "SSH"

\* the record of a transport operation on connection c
Called(op, c) ==
  [op |-> op, impl |-> Dispatch(c), IsSSH |-> IsSSH(c), IsWinRM |-> IsWinRM(c)]

\* Connection.Upload
Upload(i) ==
  /\ lastCall' = Called("Upload", conns[i])
  /\ UNCHANGED <<connfixed, conns, swapErr>>

\* Connection.ExecuteCommand
ExecuteCommand(i) ==
  /\ lastCall' = Called("ExecuteCommand", conns[i])
  /\ UNCHANGED <<connfixed, conns, swapErr>>

\* Connection.RemoteShell
RemoteShell(i) ==
  /\ lastCall' = Called("RemoteShell", conns[i])
  /\ UNCHANGED <<connfixed, conns, swapErr>>

ConnNext ==
  \/ \E i \in ConnIds : SetID(i)
  \/ \E i \in ConnIds, o \in Policies : SetOnConflict(i, o)
  \/ \E i \in ConnIds, ca \in Callers : SetCaller(i, ca)
  \/ \E i \in ConnIds, m \in ConnIds \cup {OtherKind} : Swap(i, m)
  \/ \E i \in ConnIds : Upload(i)
  \/ \E i \in ConnIds : ExecuteCommand(i)
  \/ \E i \in ConnIds : RemoteShell(i)

\* ================================================== SSH operations
\* most operations in a row
MaxOps == 2

SSHOps == {"ExecuteCommandSSH", "InteractiveSSH", "UploadScriptSFTP",
           "UploadSFTP", "DeleteScriptSFTP", "UploadSCP"}

\* operations that begin with os.Stat(src)
StatsSource(op) == op \in {"UploadScriptSFTP", "UploadSFTP", "UploadSCP"}

\* operations that refuse a directory
RefusesDir(op) == op \in {"UploadScriptSFTP", "UploadSFTP"}

\* the fallible calls after defer client.Disconnect(): client.Start and
\* cmd.Wait; os.Open and client.Upload; one call in the other cases
CallsAfterDefer(op, src) ==
  IF op = "ExecuteCommandSSH" \/ (op = "UploadSCP" /\ src = "file") THEN 2 ELSE 1

\* SSHClient.Connect: on success one more client is connected, on failure none
SSHClientConnect(open, ok) == IF ok THEN open + 1 ELSE open

\* SSHClient.Disconnect: the client is no longer connected
SSHClientDisconnect(open) == open - 1

NoSSHCall == [op |-> "none", src |-> "file", connected |-> FALSE, err |-> "nil"]

SSHInit ==
  /\ sshop = "none"
  /\ sshpc = "idle"
  /\ sshsrc = "file"
  /\ sshsteps = 0
  /\ sshOpen = 0
  /\ sshDefers = <<>>
  /\ sshErr = "nil"
  /\ sshLast = NoSSHCall
  /\ sshDone = 0


\* an operation is called; src is what the operation's os.Stat will find
SSHCall(op, src) ==
  /\ sshpc = "idle"
  /\ sshDone < MaxOps
  /\ sshop' = op
  /\ sshsrc' = IF StatsSource(op) THEN src ELSE "file"
  /\ sshpc' = IF StatsSource(op) THEN "stat" ELSE "new"
  /\ sshErr' = "nil"
  /\ UNCHANGED <<sshfixed, sshsteps, sshOpen, sshDefers, sshLast, sshDone>>

\* fi, err := os.Stat(src); if fi.IsDir() { ... }
SSHStat ==
  /\ sshpc = "stat"
  /\ IF sshsrc = "missing"
       THEN sshpc' = "ret" /\ sshErr' = "stat"
       ELSE IF sshsrc = "dir" /\ RefusesDir(sshop)
         THEN sshpc' = "ret" /\ sshErr' = "isdir"
         ELSE sshpc' = "new" /\ UNCHANGED sshErr
  /\ UNCHANGED <<sshfixed, sshop, sshsrc, sshsteps, sshOpen, sshDefers, sshLast,
                 sshDone>>

\* client, err := NewSSHClient(c.SSHAuthConfig, "")
SSHNewClient ==
  /\ sshpc = "new"
  /\ \/ sshpc' = "connect" /\ UNCHANGED sshErr
     \/ sshpc' = "ret" /\ sshErr' = "newclient"
  /\ UNCHANGED <<sshfixed, sshop, sshsrc, sshsteps, sshOpen, sshDefers, sshLast,
                 sshDone>>

\* err = client.Connect(); if err != nil { return err }
SSHConnect ==
  /\ sshpc = "connect"
  /\ \E ok \in BOOLEAN :
       /\ sshOpen' = SSHClientConnect(sshOpen, ok)
       /\ sshpc' = IF ok THEN "defer" ELSE "ret"
       /\ sshErr' = IF ok THEN sshErr ELSE "connect"
  /\ UNCHANGED <<sshfixed, sshop, sshsrc, sshsteps, sshDefers, sshLast, sshDone>>

\* the operation goes on without deferring the Disconnect
SSHNoDefer ==
  /\ sshpc = "defer"
  /\ sshsteps' = CallsAfterDefer(sshop, sshsrc)
  /\ sshpc' = "use"
  /\ UNCHANGED <<sshfixed, sshop, sshsrc, sshOpen, sshDefers, sshErr, sshLast,
                 sshDone>>

\* defer client.Disconnect()
SSHDeferDisconnect ==
  /\ sshpc = "defer"
  /\ sshDefers' = <<"Disconnect">> \o sshDefers
  /\ sshsteps' = CallsAfterDefer(sshop, sshsrc)
  /\ sshpc' = "use"
  /\ UNCHANGED <<sshfixed, sshop, sshsrc, sshOpen, sshErr, sshLast, sshDone>>

\* a call on the connected client (or os.Open in UploadSCP) and the test of
\* its error: client.Start, cmd.Wait, LaunchInteractiveShell, UploadScriptV2,
\* UploadFileV2, DeleteScriptV2, UploadDir, Upload
SSHUse ==
  /\ sshpc = "use"
  /\ \/ /\ sshErr' = "use"
        /\ sshpc' = "ret"
        /\ UNCHANGED sshsteps
     \/ /\ sshsteps' = sshsteps - 1
        /\ sshpc' = IF sshsteps = 1 THEN "ret" ELSE "use"
        /\ UNCHANGED sshErr
  /\ UNCHANGED <<sshfixed, sshop, sshsrc, sshOpen, sshDefers, sshLast, sshDone>>

\* return: the deferred calls run, then the caller has the error
SSHReturn ==
  /\ sshpc = "ret"
  /\ sshOpen' = IF sshDefers # <<>> THEN SSHClientDisconnect(sshOpen) ELSE sshOpen
  /\ sshDefers' = <<>>
  /\ sshLast' = [op |-> sshop,
                 src |-> sshsrc,
                 connected |-> sshErr \in {"nil", "use"},
                 err |-> sshErr]
  /\ sshop' = "none"
  /\ sshpc' = "idle"
  /\ sshDone' = sshDone + 1
  /\ UNCHANGED <<sshfixed, sshsrc, sshsteps, sshErr>>

SSHNext ==
  \/ \E op \in SSHOps, src \in {"missing", "dir", "file"} : SSHCall(op, src)
  \/ SSHStat
  \/ SSHNewClient
  \/ SSHConnect
  \/ SSHDeferDisconnect
  \/ SSHUse
  \/ SSHReturn

\* ================================================== checksums
\* fmt's %v of a bool
FmtBool(b) == IF b THEN <<"t", "r", "u", "e">> ELSE <<"f", "a", "l", "s", "e">>

DigitChar == <<"0", "1", "2", "3", "4", "5", "6", "7", "8", "9">>

\* fmt's %v of a non-negative integer
RECURSIVE FmtInt(_)
FmtInt(n) ==
  IF n < 10 THEN <<DigitChar[n + 1]>>
  ELSE FmtInt(n \div 10) \o <<DigitChar[(n % 10) + 1]>>

\* fmt's %v of a []string: the elements between brackets, a space apart
FmtSlice(xs) == <<"[">> \o JoinBy(xs, " ") \o <<"]">>

\* fmt's %v of a map[string]string, given as its key:value pairs in key order
FmtMap(m) ==
  <<"m", "a", "p", "[">>
    \o JoinBy([i \in 1..Len(m) |-> m[i][1] \o <<":">> \o m[i][2]], " ")
    \o <<"]">>

\* the pieces of a formatted string, one after the other
RECURSIVE Concat(_)
Concat(pieces) ==
  IF pieces = <<>> THEN <<>> ELSE Head(pieces) \o Concat(Tail(pieces))

\* xxhash.Sum64String, taken to be injective: the checksum stands for the
\* string it was computed from
Sum64String(s) == s

\* the checksum sentinel of a missing auth config and of an unreadable file
Sentinel == 666

\* HashConfigMap(vars): a digest of the map
HashConfigMap(m) == FmtMap(m)

\* iostr in Command.Hash
IOString(io) ==
  IF io = <<>> THEN <<"n", "/", "a">>
  ELSE io[1].Stderr \o io[1].Stdin \o io[1].Stdout

\* the hash of an auth config, or the sentinel when there is none
AuthHash(cfg) == IF cfg = <<>> THEN Sentinel ELSE cfg[1]

\* ResourceHash with a sentinel for each path
ResourceHashPerPath(r) ==
  IF r.Content = <<>> THEN Sentinel + Len(r.AbsPath) + (IF r.AbsPath[2] = "a" THEN 0 ELSE 1)
  ELSE r.Content[1]

\* RemoteFile.ResourceHash: the hash of the bytes read from r.AbsPath
\* (r.Content), or the sentinel when the file cannot be read
ResourceHash(r) == IF r.Content = <<>> THEN Sentinel ELSE r.Content[1]

\* Command.Hash
CommandHash(c) ==
  Sum64String(Concat(<<
       <<"p", "r", "o", "g", "r", "a", "m", "=">>,
       c.Program,
       <<" ", "a", "r", "g", "s", "=">>,
       JoinBy(c.Args, ","),
       <<" ", "i", "g", "n", "o", "r", "e", "e", "r", "r", "o", "r", "s", "=">>,
       FmtBool(c.IgnoreErrors),
       <<" ", "c", "o", "o", "l", "d", "o", "w", "n", "=">>,
       FmtInt(c.Cooldown),
       <<" ", "i", "o", "=">>,
       IOString(c.IO),
       <<" ", "d", "i", "s", "a", "b", "l", "e", "d", "=">>,
       FmtBool(c.Disabled),
       <<" ", "v", "a", "r", "s", "=">>,
       FmtMap(c.Vars)>>))

\* DNSRecord.Hash
DNSRecordHash(r) ==
  Sum64String(Concat(<<
       <<"n", "a", "m", "e", "=">>,
       r.Name,
       <<" ", "v", "a", "l", "u", "e", "s", "=">>,
       FmtSlice(r.Values),
       <<" ", "t", "y", "p", "e", "=">>,
       r.Type,
       <<" ", "z", "o", "n", "e", "=">>,
       r.Zone,
       <<" ", "v", "a", "r", "s", "=">>,
       FmtMap(r.Vars),
       <<" ", "d", "i", "s", "a", "b", "l", "e", "d", "=">>,
       FmtBool(r.Disabled)>>))

\* Network.Hash
NetworkHash(n) ==
  Sum64String(Concat(<<
       <<"n", "a", "m", "e", "=">>,
       n.Name,
       <<" ", "c", "i", "d", "r", "=">>,
       n.CIDR,
       <<" ", "v", "d", "i", "v", "i", "s", "i", "b", "l", "e", "=">>,
       FmtBool(n.VDIVisible),
       <<" ", "v", "a", "r", "s", "=">>,
       HashConfigMap(n.Vars)>>))

\* RemoteFile.Hash
RemoteFileHash(r) ==
  Sum64String(Concat(<<
       <<"s", "o", "u", "r", "c", "e", "t", "y", "p", "e", "=">>,
       r.SourceType,
       <<" ", "d", "e", "s", "t", "i", "n", "a", "t", "i", "o", "n", "=">>,
       r.Destination,
       <<" ", "v", "a", "r", "s", "=">>,
       FmtMap(r.Vars),
       <<" ", "t", "e", "m", "p", "l", "a", "t", "e", "=">>,
       FmtBool(r.Template),
       <<" ", "p", "e", "r", "m", "s", "=">>,
       r.Perms,
       <<" ", "d", "i", "s", "a", "b", "l", "e", "d", "=">>,
       FmtBool(r.Disabled),
       <<" ", "s", "o", "u", "r", "c", "e", "=">>,
       FmtInt(ResourceHash(r))>>))

\* ProvisionedNetwork.Hash; Network, Team and Status are given by their hashes
ProvisionedNetworkHash(p) ==
  Sum64String(Concat(<<
       <<"n", "a", "m", "e", "=">>,
       p.Name,
       <<" ", "c", "i", "d", "r", "=">>,
       p.CIDR,
       <<" ", "n", "e", "t", "=">>,
       FmtInt(p.Network),
       <<" ", "t", "e", "a", "m", "=">>,
       FmtInt(p.Team),
       <<" ", "s", "t", "a", "t", "u", "s", "=">>,
       FmtInt(p.Status)>>))

\* ProvisioningStep.Hash; the Provisioner is given by its hash
ProvisioningStepHash(p) ==
  Sum64String(Concat(<<
       <<"p", "i", "d", "=">>,
       p.ProvisionerID,
       <<" ", "p", "t", "y", "p", "e", "=">>,
       p.ProvisionerType,
       <<" ", "p", "h", "a", "s", "h", "=">>,
       FmtInt(p.Provisioner),
       <<" ", "s", "n", "u", "m", "=">>,
       FmtInt(p.StepNumber)>>))

\* Connection.Hash
ConnectionHash(c) ==
  Sum64String(Concat(<<
       <<"i", "d", "=">>,
       c.ID,
       <<" ", "l", "o", "c", "a", "l", "a", "d", "d", "r", "=">>,
       c.LocalAddr,
       <<" ", "r", "m", "a", "d", "d", "r", "=">>,
       c.RemoteAddr,
       <<" ", "r", "n", "a", "m", "e", "=">>,
       c.ResourceName,
       <<" ", "s", "s", "h", "c", "=">>,
       FmtInt(AuthHash(c.SSHAuthConfig)),
       <<" ", "w", "r", "m", "c", "=">>,
       FmtInt(AuthHash(c.WinRMAuthConfig))>>))

\* ----- the objects tried
Texts == {<<"a">>, <<"b">>}

\* lists of texts, one of them a single text that holds the separator sep
TextLists(sep) == {<<>>, <<<<"a">>>>, <<<<"a">>, <<"a">>>>, <<<<"a", sep, "a">>>>}

IOs == {<<>>,
        <<[Stderr |-> <<"a">>, Stdin |-> <<>>, Stdout |-> <<>>]>>,
        <<[Stderr |-> <<>>, Stdin |-> <<"a">>, Stdout |-> <<>>]>>}

Maps == {<<>>, << <<<<"a">>, <<"a">>>> >>, << <<<<"a">>, <<"b">>>> >>}

\* hashes of nested objects and of file contents
Hashes == {7, 8}

\* a pointer: nil or a value
Maybe(S) == {<<>>} \cup {<<v>> : v \in S}

IDs == {<<"/", "a">>, <<"/", "b">>}

HashCallers == {"none", "envfile"}

HashKinds == {"Command", "DNSRecord", "Network", "RemoteFile", "ProvisionedNetwork", "ProvisioningStep", "Connection"}

\* the fields that are not part of an object's content
IdentityFields == {"ID", "Caller"}

\* the values tried for each field of a kind
FieldValues(k) ==
  CASE k = "Command" ->
        [ID |-> IDs,
         Caller |-> HashCallers,
         Program |-> Texts,
         Args |-> TextLists(","),
         IgnoreErrors |-> BOOLEAN,
         Cooldown |-> 0..1,
         IO |-> IOs,
         Disabled |-> BOOLEAN,
         Vars |-> Maps]
    [] k = "DNSRecord" ->
        [ID |-> IDs,
         Caller |-> HashCallers,
         Name |-> Texts,
         Values |-> TextLists(" "),
         Type |-> Texts,
         Zone |-> Texts,
         Vars |-> Maps,
         Disabled |-> BOOLEAN]
    [] k = "Network" ->
        [ID |-> IDs,
         Caller |-> HashCallers,
         Name |-> Texts,
         CIDR |-> Texts,
         VDIVisible |-> BOOLEAN,
         Vars |-> Maps]
    [] k = "RemoteFile" ->
        [ID |-> IDs,
         Caller |-> HashCallers,
         SourceType |-> Texts,
         Destination |-> Texts,
         Vars |-> Maps,
         Template |-> BOOLEAN,
         Perms |-> Texts,
         Disabled |-> BOOLEAN,
         Content |-> Maybe(Hashes)]
    [] k = "ProvisionedNetwork" ->
        [ID |-> IDs,
         Caller |-> HashCallers,
         Name |-> Texts,
         CIDR |-> Texts,
         Network |-> Hashes,
         Team |-> Hashes,
         Status |-> Hashes]
    [] k = "ProvisioningStep" ->
        [ID |-> IDs,
         Caller |-> HashCallers,
         ProvisionerID |-> Texts,
         ProvisionerType |-> Texts,
         Provisioner |-> Hashes,
         StepNumber |-> 0..1]
    [] k = "Connection" ->
        [ID |-> IDs,
         Caller |-> HashCallers,
         LocalAddr |-> Texts,
         RemoteAddr |-> Texts,
         ResourceName |-> Texts,
         SSHAuthConfig |-> Maybe(Hashes),
         WinRMAuthConfig |-> Maybe(Hashes)]

Fields(k) == DOMAIN FieldValues(k)

\* the objects of kind k
Objects(k) ==
  CASE k = "Command" ->
        [ID : IDs,
         Caller : HashCallers,
         Program : Texts,
         Args : TextLists(","),
         IgnoreErrors : BOOLEAN,
         Cooldown : 0..1,
         IO : IOs,
         Disabled : BOOLEAN,
         Vars : Maps]
    [] k = "DNSRecord" ->
        [ID : IDs,
         Caller : HashCallers,
         Name : Texts,
         Values : TextLists(" "),
         Type : Texts,
         Zone : Texts,
         Vars : Maps,
         Disabled : BOOLEAN]
    [] k = "Network" ->
        [ID : IDs,
         Caller : HashCallers,
         Name : Texts,
         CIDR : Texts,
         VDIVisible : BOOLEAN,
         Vars : Maps]
    [] k = "RemoteFile" ->
        [ID : IDs,
         Caller : HashCallers,
         SourceType : Texts,
         Destination : Texts,
         Vars : Maps,
         Template : BOOLEAN,
         Perms : Texts,
         Disabled : BOOLEAN,
         AbsPath : IDs,
         Content : Maybe(Hashes)]
    [] k = "ProvisionedNetwork" ->
        [ID : IDs,
         Caller : HashCallers,
         Name : Texts,
         CIDR : Texts,
         Network : Hashes,
         Team : Hashes,
         Status : Hashes]
    [] k = "ProvisioningStep" ->
        [ID : IDs,
         Caller : HashCallers,
         ProvisionerID : Texts,
         ProvisionerType : Texts,
         Provisioner : Hashes,
         StepNumber : 0..1]
    [] k = "Connection" ->
        [ID : IDs,
         Caller : HashCallers,
         LocalAddr : Texts,
         RemoteAddr : Texts,
         ResourceName : Texts,
         SSHAuthConfig : Maybe(Hashes),
         WinRMAuthConfig : Maybe(Hashes)]

\* x with one field given another value, or with another ID and Caller
Variants(k, x) ==
  UNION {{[x EXCEPT ![f] = v] : v \in FieldValues(k)[f]} : f \in Fields(k)}
    \cup {[x EXCEPT !.ID = i, !.Caller = ca] : i \in IDs, ca \in HashCallers}
    \cup (IF k = "RemoteFile" THEN {[x EXCEPT !.AbsPath = a] : a \in IDs} ELSE {})

\* Hash() of an object of kind k
HashOf(k, x) ==
  CASE k = "Command" -> CommandHash(x)
    [] k = "DNSRecord" -> DNSRecordHash(x)
    [] k = "Network" -> NetworkHash(x)
    [] k = "RemoteFile" -> RemoteFileHash(x)
    [] k = "ProvisionedNetwork" -> ProvisionedNetworkHash(x)
    [] k = "ProvisioningStep" -> ProvisioningStepHash(x)
    [] k = "Connection" -> ConnectionHash(x)

HashIdle ==
  /\ hkind = "Network"
  /\ hx = CHOOSE x \in Objects("Network") : TRUE
  /\ hy = hx
  /\ hsum = <<>>

\* two objects of one kind, the second a variant of the first
HashInit ==
  /\ hkind \in HashKinds
  /\ hx \in Objects(hkind)
  /\ hy \in Variants(hkind, hx)
  /\ hsum = <<>>


\* Hash() is called on both objects
HashBoth ==
  /\ hsum = <<>>
  /\ hsum' = <<HashOf(hkind, hx), HashOf(hkind, hy)>>
  /\ UNCHANGED <<hashfixed, hkind, hx, hy>>

HashNext == HashBoth

\* ================================================== Metadata
\* the largest checksum tried (checksums are 0..MaxHash)
MaxHash == 2

\* most calls of the wrapped object's Hash()
MaxDepCalls == 3

NoMetaOp == [op |-> "none", before |-> 0, memo |-> FALSE, called |-> FALSE,
             ret |-> 0, dep |-> 0]

\* a Metadata whose checksum has not been computed
MetaInit ==
  /\ mChecksum = 0
  /\ depHash \in 0..MaxHash
  /\ mMemo = FALSE
  /\ depCalls = 0
  /\ mLast = NoMetaOp

MetaIdle ==
  /\ mChecksum = 0
  /\ depHash = 1
  /\ mMemo = FALSE
  /\ depCalls = 0
  /\ mLast = NoMetaOp

\* CalculateChecksum that computes only when the checksum is zero
CalculateChecksumIfZero ==
  /\ IF mChecksum = 0
       THEN /\ depCalls < MaxDepCalls
            /\ mChecksum' = depHash
            /\ depCalls' = depCalls + 1
            /\ mMemo' = TRUE
       ELSE UNCHANGED <<mChecksum, depCalls, mMemo>>
  /\ mLast' = [op |-> "CalculateChecksum", before |-> mChecksum, memo |-> mMemo,
               called |-> mChecksum = 0, ret |-> 0, dep |-> depHash]
  /\ UNCHANGED <<metafixed, depHash>>

\* Metadata.CalculateChecksum: m.Checksum = m.Dependency.Hash()
CalculateChecksum ==
  /\ depCalls < MaxDepCalls
  /\ mChecksum' = depHash
  /\ depCalls' = depCalls + 1
  /\ mMemo' = TRUE
  /\ mLast' = [op |-> "CalculateChecksum", before |-> mChecksum, memo |-> mMemo,
               called |-> TRUE, ret |-> 0, dep |-> depHash]
  /\ UNCHANGED <<metafixed, depHash>>

\* Hash that computes the checksum at every call
MetaHashAlways ==
  /\ depCalls < MaxDepCalls
  /\ mChecksum' = depHash
  /\ depCalls' = depCalls + 1
  /\ mMemo' = TRUE
  /\ mLast' = [op |-> "Hash", before |-> mChecksum, memo |-> mMemo,
               called |-> TRUE, ret |-> depHash, dep |-> depHash]
  /\ UNCHANGED <<metafixed, depHash>>

\* Metadata.Hash: if m.Checksum == 0 { m.CalculateChecksum() }; return m.Checksum
MetaHash ==
  /\ IF mChecksum = 0
       THEN /\ depCalls < MaxDepCalls
            /\ mChecksum' = depHash
            /\ depCalls' = depCalls + 1
            /\ mMemo' = TRUE
       ELSE UNCHANGED <<mChecksum, depCalls, mMemo>>
  /\ mLast' = [op |-> "Hash", before |-> mChecksum, memo |-> mMemo,
               called |-> mChecksum = 0, ret |-> mChecksum', dep |-> depHash]
  /\ UNCHANGED <<metafixed, depHash>>

\* the wrapped object changes: its Hash() is now h
ChangeDependency(h) ==
  /\ h # depHash
  /\ depHash' = h
  /\ mLast' = [mLast EXCEPT !.op = "change"]
  /\ UNCHANGED <<metafixed, mChecksum, mMemo, depCalls>>

\* m.Checksum = 0: the checksum is invalidated
ResetChecksum ==
  /\ mChecksum' = 0
  /\ mMemo' = FALSE
  /\ mLast' = [mLast EXCEPT !.op = "reset"]
  /\ UNCHANGED <<metafixed, depHash, depCalls>>

MetaNext ==
  \/ CalculateChecksum
  \/ MetaHash
  \/ \E h \in 0..MaxHash : ChangeDependency(h)
  \/ ResetChecksum

\* ================================================== path validation
\* longest path tried, besides the sample paths
MaxPathLen == 6

\* [a-z0-9]
LowerAlnum ==
  {"a", "b", "c", "d", "e", "f", "g", "h", "i", "j", "k", "l",
   "m", "n", "o", "p", "q", "r", "s", "t", "u", "v", "w", "x",
   "y", "z", "0", "1", "2", "3", "4", "5", "6", "7", "8", "9"}

\* [a-z0-9\-\/]
PathChars == LowerAlnum \cup {"-", "/"}

\* genericPathRegexp: ^\/[a-z0-9\-\/]{3,}[a-z0-9]$
GenericPathRegexp(p) ==
  /\ Len(p) >= 5
  /\ p[1] = "/"
  /\ \A i \in 2..(Len(p) - 1) : p[i] \in PathChars
  /\ p[Len(p)] \in LowerAlnum

\* consecutiveSlashRegexp: \/\/
ConsecutiveSlashRegexp(p) ==
  \E i \in 1..(Len(p) - 1) : p[i] = "/" /\ p[i + 1] = "/"

\* ValidateGenericPath without the test for consecutive slashes
ValidateCharsOnly(p) ==
  IF ~GenericPathRegexp(p) THEN "ErrPathContainsInvalidChars" ELSE "nil"

\* ValidateGenericPath
ValidateGenericPath(p) ==
  IF ~GenericPathRegexp(p) THEN "ErrPathContainsInvalidChars"
  ELSE IF ConsecutiveSlashRegexp(p) THEN "ErrPathContainsDuplicateSlash"
  ELSE "nil"

\* /commands/recon-script, /networks/dmz and
\* /envs/ctf2024/build1/teams/team-01/networks/dmz
SamplePaths ==
  {<<"/", "c", "o", "m", "m", "a", "n", "d", "s", "/", "r", "e", "c", "o",
     "n", "-", "s", "c", "r", "i", "p", "t">>,
   <<"/", "n", "e", "t", "w", "o", "r", "k", "s", "/", "d", "m", "z">>,
   <<"/", "e", "n", "v", "s", "/", "c", "t", "f", "2", "0", "2", "4", "/",
     "b", "u", "i", "l", "d", "1", "/", "t", "e", "a", "m", "s", "/", "t",
     "e", "a", "m", "-", "0", "1", "/", "n", "e", "t", "w", "o", "r", "k",
     "s", "/", "d", "m", "z">>}

ValInit ==
  /\ vpath \in StringsUpTo({"a", "B", "/", "-", "."}, MaxPathLen) \cup SamplePaths
  /\ vorig = vpath
  /\ verr = "unset"

ValIdle ==
  /\ vpath = <<>>
  /\ vorig = <<>>
  /\ verr = "unset"

\* ValidatePath of an object whose Path() is vpath
ValidatePath ==
  /\ verr = "unset"
  /\ verr' = ValidateGenericPath(vpath)
  /\ UNCHANGED <<valfixed, vpath, vorig>>

ValNext == ValidatePath

\* ================================================== identity paths
\* largest step number tried
MaxStep == 1

\* the path elements TypeByPath and the SetID rules name
Seg ==
  [scripts |-> <<"s", "c", "r", "i", "p", "t", "s">>,
   networks |-> <<"n", "e", "t", "w", "o", "r", "k", "s">>,
   hosts |-> <<"h", "o", "s", "t", "s">>,
   commands |-> <<"c", "o", "m", "m", "a", "n", "d", "s">>,
   dnsrecords |-> <<"d", "n", "s", "-", "r", "e", "c", "o", "r", "d", "s">>,
   files |-> <<"f", "i", "l", "e", "s">>,
   envs |-> <<"e", "n", "v", "s">>,
   teams |-> <<"t", "e", "a", "m", "s">>,
   steps |-> <<"s", "t", "e", "p", "s">>,
   conn |-> <<"c", "o", "n", "n">>]

\* path.IsAbs
PathIsAbs(p) == Len(p) > 0 /\ p[1] = "/"

\* path.Base
PathBase(p) == Base(UnixSeparator, p)

\* path.Dir: the path up to its last slash, cleaned
PathDir(p) == Clean(UnixSeparator, <<>>, SubSeq(p, 1, LastIndexOf(p, "/")))

\* path.Join
PathJoin(elems) == Join(UnixSeparator, <<>>, elems)

\* TypeByPath
TypeByPath(p) ==
  IF ~PathIsAbs(p) THEN "competition"
  ELSE LET pelms == SplitBy(p, "/")
           base == PathBase(p)
           dirBase == PathBase(PathDir(p))
           dirDirBase == PathBase(PathDir(PathDir(p)))
       IN CASE pelms[2] = Seg.scripts -> "script"
            [] pelms[2] = Seg.networks -> "network"
            [] pelms[2] = Seg.hosts -> "host"
            [] pelms[2] = Seg.commands -> "command"
            [] pelms[2] = Seg.dnsrecords -> "dns_record"
            [] pelms[2] = Seg.files -> "remote_file"
            [] OTHER ->
                 IF dirBase = Seg.envs THEN "environment"
                 ELSE IF dirDirBase = Seg.envs THEN "build"
                 ELSE IF dirBase = Seg.teams THEN "team"
                 ELSE IF dirBase = Seg.networks /\ pelms[2] = Seg.envs
                   THEN "provisioned_network"
                 ELSE IF dirBase = Seg.hosts /\ pelms[2] = Seg.envs
                   THEN "provisioned_host"
                 ELSE IF base = Seg.conn /\ dirDirBase = Seg.hosts
                   THEN "connection"
                 ELSE IF dirBase = Seg.steps /\ pelms[2] = Seg.envs
                   THEN "provisioning_step"
                 ELSE "unknown"

\* the LFType of each kind that has a SetID rule here
LFTypeOf(kind) ==
  CASE kind = "ProvisionedNetwork" -> "provisioned_network"
    [] kind = "ProvisioningStep" -> "provisioning_step"
    [] kind = "Connection" -> "connection"

\* ParentLaforgeID that goes one directory up
ParentOneUp(kind, o) == PathDir(o.ID)

\* ParentLaforgeID of a ProvisionedNetwork, a ProvisioningStep, a Connection
ParentLaforgeID(kind, o) ==
  IF kind = "Connection" THEN PathDir(o.ID) ELSE PathDir(PathDir(o.ID))

\* ----- the parent chain
\* the path of a Build: /envs/<env>/<build>
BuildPath(env, build) == PathJoin(<<<<"/">>, Seg.envs, env, build>>)

\* the path of a Team: <build>/teams/<team>
TeamPath(env, build, team) == PathJoin(<<BuildPath(env, build), Seg.teams, team>>)

\* the ID of a global Network: /networks/<name>
NetworkPath(net) == PathJoin(<<<<"/">>, Seg.networks, net>>)

\* ProvisionedHost.SetID: <provisioned network>/hosts/<host>
ProvisionedHostPath(env, build, team, net, host) ==
  PathJoin(<<TeamPath(env, build, team), Seg.networks, net, Seg.hosts, host>>)

\* Provisioner.Base() of the provisioners a step can point to
ProvisionerBase(ptr) == IF ptr = 1 THEN <<"x">> ELSE Seg.conn

ProvisionerKinds == {"Command", "DNSRecord", "RemoteFile", "Script"}

\* ----- SetID
\* Connection.SetID that joins "conn" to the ID at every call
ConnectionSetIDAppends(c) ==
  [c EXCEPT !.ID = PathJoin(<<IF @ = <<>> THEN c.ProvisionedHost ELSE @, Seg.conn>>)]

\* Connection.SetID: the Connection after the call
ConnectionSetID(c) ==
  IF c.ID = <<>>
    THEN [c EXCEPT !.ID = PathJoin(<<c.ProvisionedHost, Seg.conn>>)]
    ELSE c

\* ProvisionedNetwork.SetID that sets the ID whether it is empty or not
ProvisionedNetworkSetIDAlways(p) ==
  [p EXCEPT !.ID = PathJoin(<<p.Team, Seg.networks, PathBase(p.Network)>>),
            !.NetworkID = IF @ = <<>> THEN p.Network ELSE @]

\* ProvisionedNetwork.SetID: the ProvisionedNetwork after the call; Team and
\* Network are given by their paths
ProvisionedNetworkSetID(p) ==
  [p EXCEPT !.ID = IF @ = <<>>
                     THEN PathJoin(<<p.Team, Seg.networks, PathBase(p.Network)>>)
                     ELSE @,
            !.NetworkID = IF @ = <<>> THEN p.Network ELSE @]

\* fmt.Sprintf("%d-%s", p.StepNumber, p.Provisioner.Base())
StepName(p) == FmtInt(p.StepNumber) \o <<"-">> \o ProvisionerBase(p.Provisioner.ptr)

\* ProvisioningStep.SetID: the ProvisioningStep after the call; the typed
\* references are 0 (nil) or the provisioner they point to
ProvisioningStepSetID(p) ==
  LET q == IF p.ID = <<>>
             THEN [p EXCEPT !.ID = PathJoin(<<p.ProvisionedHost, Seg.steps, StepName(p)>>)]
             ELSE p
  IN CASE p.Provisioner.kind = "Command" -> [q EXCEPT !.Command = p.Provisioner.ptr]
       [] p.Provisioner.kind = "DNSRecord" -> [q EXCEPT !.DNSRecord = p.Provisioner.ptr]
       [] p.Provisioner.kind = "RemoteFile" -> [q EXCEPT !.RemoteFile = p.Provisioner.ptr]
       [] p.Provisioner.kind = "Script" -> [q EXCEPT !.Script = p.Provisioner.ptr]

\* SetID of an object of a kind
SetIDOf(kind, o) ==
  CASE kind = "ProvisionedNetwork" -> ProvisionedNetworkSetID(o)
    [] kind = "ProvisioningStep" -> ProvisioningStepSetID(o)
    [] kind = "Connection" -> ConnectionSetID(o)

\* ----- the objects tried
\* base names of the IDs of hosts and networks: plain ones and the path
\* elements TypeByPath looks for
NamePool == {<<"x">>, Seg.envs, Seg.teams, Seg.networks, Seg.hosts, Seg.conn, Seg.steps}

EnvName == <<"e">>
BuildName == <<"b">>

\* an ID that was given to the object, not made by SetID
GivenID == <<"/", "p">>

\* an object of a kind with an empty ID, under a team, a network and a host
FreshObject(kind, team, net, host, num) ==
  CASE kind = "ProvisionedNetwork" ->
         [ID |-> <<>>, NetworkID |-> <<>>,
          Team |-> TeamPath(EnvName, BuildName, team),
          Network |-> NetworkPath(net)]
    [] kind = "ProvisioningStep" ->
         [ID |-> <<>>, StepNumber |-> num,
          ProvisionedHost |-> ProvisionedHostPath(EnvName, BuildName, team, net, host),
          Provisioner |-> [kind |-> "Command", ptr |-> 1],
          Command |-> 0, DNSRecord |-> 0, RemoteFile |-> 0, Script |-> 0]
    [] kind = "Connection" ->
         [ID |-> <<>>,
          ProvisionedHost |-> ProvisionedHostPath(EnvName, BuildName, team, net, host)]

\* the objects of a kind as a loader can leave them: any ID, NetworkID,
\* provisioner and typed references
LoadedObjects(kind) ==
  LET f == FreshObject(kind, <<"x">>, <<"x">>, <<"x">>, 0)
  IN CASE kind = "ProvisionedNetwork" ->
            {[f EXCEPT !.ID = i, !.NetworkID = n] :
               i \in {<<>>, GivenID}, n \in {<<>>, f.Network, GivenID}}
       [] kind = "ProvisioningStep" ->
            {[f EXCEPT !.ID = i, !.StepNumber = num, !.Provisioner = pr,
                       !.Command = c, !.Script = s] :
               i \in {<<>>, GivenID}, num \in 0..MaxStep,
               pr \in [kind : ProvisionerKinds, ptr : 1..2],
               c \in 0..2, s \in 0..1}
       [] kind = "Connection" ->
            {[f EXCEPT !.ID = i] : i \in {<<>>, GivenID}}

IDKinds == {"ProvisionedNetwork", "ProvisioningStep", "Connection"}

NoIDOp == [op |-> "none", before |-> <<>>, after |-> <<>>, ret |-> <<>>]

NoQuery == [fn |-> "none", of |-> "none", path |-> <<>>, parent |-> <<>>, type |-> "none"]

IDHistoryInit ==
  /\ idLast = NoIDOp
  /\ idPrev = NoIDOp
  /\ idSynth = <<>>
  /\ idQuery = NoQuery

IDIdle ==
  /\ idkind = "Connection"
  /\ idobj = FreshObject("Connection", <<"x">>, <<"x">>, <<"x">>, 0)
  /\ IDHistoryInit

\* a fresh object under a team, any network and any host
TypeInit ==
  /\ idkind \in IDKinds
  /\ idobj \in {FreshObject(idkind, team, net, host, num) :
                  team \in {<<"0">>}, net \in NamePool, host \in NamePool,
                  num \in 0..MaxStep}
  /\ IDHistoryInit

\* a loaded object
IDInit ==
  /\ idkind \in IDKinds
  /\ idobj \in LoadedObjects(idkind)
  /\ IDHistoryInit

\* obj.SetID()
CallSetID ==
  /\ idobj' = SetIDOf(idkind, idobj)
  /\ idLast' = [op |-> "SetID", before |-> idobj, after |-> idobj', ret |-> idobj'.ID]
  /\ idPrev' = idLast
  /\ idSynth' = IF idobj.ID # <<>> THEN idSynth
                ELSE IF idSynth = <<>> THEN <<idobj'.ID>>
                ELSE <<idobj'.ID, idSynth[1]>>
  /\ UNCHANGED <<idfixed, idkind, idQuery>>

\* obj.ID = ""
ClearID ==
  /\ idobj.ID # <<>>
  /\ idobj' = [idobj EXCEPT !.ID = <<>>]
  /\ idLast' = [op |-> "ClearID", before |-> idobj, after |-> idobj', ret |-> <<>>]
  /\ idPrev' = idLast
  /\ UNCHANGED <<idfixed, idkind, idSynth, idQuery>>

\* TypeByPath(obj.ID)
ClassifyObject ==
  /\ idobj.ID # <<>>
  /\ idQuery' = [fn |-> "TypeByPath", of |-> idkind, path |-> idobj.ID,
                 parent |-> <<>>, type |-> TypeByPath(idobj.ID)]
  /\ UNCHANGED <<idfixed, idkind, idobj, idLast, idPrev, idSynth>>

\* TypeByPath(p) for a path p
ClassifyPath(p) ==
  /\ idQuery' = [fn |-> "TypeByPath", of |-> "path", path |-> p,
                 parent |-> <<>>, type |-> TypeByPath(p)]
  /\ UNCHANGED <<idfixed, idkind, idobj, idLast, idPrev, idSynth>>

\* obj.ParentLaforgeID(), and the kind its result has by TypeByPath
CallParentLaforgeID ==
  /\ idobj.ID # <<>>
  /\ LET parent == ParentLaforgeID(idkind, idobj)
     IN idQuery' = [fn |-> "ParentLaforgeID", of |-> idkind, path |-> idobj.ID,
                    parent |-> parent, type |-> TypeByPath(parent)]
  /\ UNCHANGED <<idfixed, idkind, idobj, idLast, idPrev, idSynth>>

\* the sample paths: /commands/foo, /envs/x/build1/teams/t1/hosts/web01,
\* /envs/x/build1/teams/t1/hosts/web01/steps/0-initscript,
\* /envs/x/build1/teams/t1/hosts/web01/conn
SampleIDPaths ==
  <<<<"/", "c", "o", "m", "m", "a", "n", "d", "s", "/", "f", "o", "o">>,
    <<"/", "e", "n", "v", "s", "/", "x", "/", "b", "u", "i", "l", "d", "1",
      "/", "t", "e", "a", "m", "s", "/", "t", "1", "/", "h", "o", "s", "t",
      "s", "/", "w", "e", "b", "0", "1">>,
    <<"/", "e", "n", "v", "s", "/", "x", "/", "b", "u", "i", "l", "d", "1",
      "/", "t", "e", "a", "m", "s", "/", "t", "1", "/", "h", "o", "s", "t",
      "s", "/", "w", "e", "b", "0", "1", "/", "s", "t", "e", "p", "s", "/",
      "0", "-", "i", "n", "i", "t", "s", "c", "r", "i", "p", "t">>,
    <<"/", "e", "n", "v", "s", "/", "x", "/", "b", "u", "i", "l", "d", "1",
      "/", "t", "e", "a", "m", "s", "/", "t", "1", "/", "h", "o", "s", "t",
      "s", "/", "w", "e", "b", "0", "1", "/", "c", "o", "n", "n">>>>

\* the kinds the sample paths are said to have
SampleIDTypes == <<"command", "provisioned_host", "provisioning_step", "connection">>

\* the first path elements of the global kinds and the kind of each
GlobalSegments ==
  <<Seg.scripts, Seg.networks, Seg.hosts, Seg.commands, Seg.dnsrecords, Seg.files>>

GlobalTypes == <<"script", "network", "host", "command", "dns_record", "remote_file">>

\* paths under the first element seg
GlobalPaths(seg) ==
  {PathJoin(<<<<"/">>, seg>> \o rest) :
     rest \in {<<<<"x">>>>, <<Seg.envs, <<"x">>>>}}

ClassifiedPaths ==
  {SampleIDPaths[i] : i \in DOMAIN SampleIDPaths}
    \cup UNION {GlobalPaths(GlobalSegments[i]) : i \in DOMAIN GlobalSegments}

TypeNext ==
  \/ CallSetID
  \/ ClassifyObject
  \/ \E p \in ClassifiedPaths : ClassifyPath(p)
  \/ CallParentLaforgeID

IDNext ==
  \/ CallSetID
  \/ ClearID

\* ----- the typed references of a ProvisioningStep
\* the provisioners a step can be given
Provisioners == [kind : ProvisionerKinds, ptr : {1}]

\* a new step under host with a Provisioner and no typed reference yet
NewStep(host, num, pr) ==
  [FreshObject("ProvisioningStep", <<"0">>, <<"x">>, host, num)
     EXCEPT !.Provisioner = pr]

\* the steps Swap is given: new ones, and new ones after SetID
StepOperands ==
  UNION {{NewStep(<<"y">>, 0, pr), ProvisioningStepSetID(NewStep(<<"y">>, 0, pr))} :
           pr \in Provisioners}

StepInit ==
  /\ idkind = "ProvisioningStep"
  /\ idobj \in {NewStep(<<"x">>, num, pr) : num \in 0..MaxStep, pr \in Provisioners}
  /\ IDHistoryInit

\* p.Provisioner = pr
AssignProvisioner(pr) ==
  /\ idobj' = [idobj EXCEPT !.Provisioner = pr]
  /\ idLast' = [op |-> "Provisioner", before |-> <<>>, after |-> <<>>, ret |-> <<>>]
  /\ idPrev' = idLast
  /\ UNCHANGED <<idfixed, idkind, idSynth, idQuery>>

\* ProvisioningStep.Swap with another ProvisioningStep
StepSwap(m) ==
  /\ idobj' = m
  /\ idLast' = [op |-> "Swap", before |-> <<>>, after |-> <<>>, ret |-> <<>>]
  /\ idPrev' = idLast
  /\ UNCHANGED <<idfixed, idkind, idSynth, idQuery>>

StepNext ==
  \/ CallSetID
  \/ \E pr \in Provisioners : AssignProvisioner(pr)
  \/ \E m \in StepOperands : StepSwap(m)

\* ================================================== Mergeable objects
MergeIds == {1, 2}

\* a new object of a kind: no OnConflict; i stands for the values of its
\* nested pointers and of its other fields
NewMergeable(kind, i) ==
  [kind |-> kind,
   ID |-> <<"/">> \o FmtInt(i),
   Caller |-> i,
   OnConflict |-> <<>>,
   Pointers |-> i,
   Content |-> i]

\* GetOnConflict with Append set for every kind
DefaultAppend(kind) == [do |-> "default", append |-> TRUE]

\* the OnConflict that GetOnConflict makes when the object has none
DefaultOnConflict(kind) ==
  [do |-> "default", append |-> kind \in {"ProvisionedNetwork", "ProvisioningStep"}]

NoMergeCall ==
  [op |-> "none", recv |-> 0, arg |-> 0, err |-> "none", ret |-> <<>>, before |-> <<>>]

MergeInit ==
  /\ mobjs \in {[i \in MergeIds |-> NewMergeable(k[i], i)] : k \in [MergeIds -> HashKinds]}
  /\ mcall = NoMergeCall
  /\ mset = [i \in MergeIds |-> <<>>]

MergeIdle ==
  /\ mobjs = [i \in MergeIds |-> NewMergeable("Network", i)]
  /\ mcall = NoMergeCall
  /\ mset = [i \in MergeIds |-> <<>>]

\* Swap that keeps the receiver's OnConflict
MergeSwapKeepsPolicy(i, j) ==
  LET ok == mobjs[j].kind = mobjs[i].kind
  IN /\ mobjs' = IF ok
                   THEN [mobjs EXCEPT ![i] = [mobjs[j] EXCEPT !.OnConflict = mobjs[i].OnConflict]]
                   ELSE mobjs
     /\ mcall' = [op |-> "Swap", recv |-> i, arg |-> j,
                  err |-> IF ok THEN "nil" ELSE "ErrSwapTypeMismatch",
                  ret |-> <<>>, before |-> mobjs]
     /\ mset' = IF ok THEN [mset EXCEPT ![i] = <<>>] ELSE mset
     /\ UNCHANGED mergefixed

\* Swap of each kind: object i is the receiver, object j the operand; the
\* type assertion succeeds when j is of the receiver's kind
MergeSwap(i, j) ==
  LET ok == mobjs[j].kind = mobjs[i].kind
  IN /\ mobjs' = IF ok THEN [mobjs EXCEPT ![i] = mobjs[j]] ELSE mobjs
     /\ mcall' = [op |-> "Swap", recv |-> i, arg |-> j,
                  err |-> IF ok THEN "nil" ELSE "ErrSwapTypeMismatch",
                  ret |-> <<>>, before |-> mobjs]
     /\ mset' = IF ok THEN [mset EXCEPT ![i] = <<>>] ELSE mset
     /\ UNCHANGED mergefixed

\* GetOnConflict of each kind
MergeGetOnConflict(i) ==
  /\ mcall' = [op |-> "GetOnConflict", recv |-> i, arg |-> 0, err |-> "none",
               ret |-> IF mobjs[i].OnConflict = <<>>
                         THEN <<DefaultOnConflict(mobjs[i].kind)>>
                         ELSE mobjs[i].OnConflict,
               before |-> mobjs]
  /\ UNCHANGED <<mergefixed, mobjs, mset>>

\* SetOnConflict of each kind
MergeSetOnConflict(i, o) ==
  /\ mobjs' = [mobjs EXCEPT ![i].OnConflict = <<o>>]
  /\ mcall' = [op |-> "SetOnConflict", recv |-> i, arg |-> o, err |-> "none",
               ret |-> <<>>, before |-> mobjs]
  /\ mset' = [mset EXCEPT ![i] = <<o>>]
  /\ UNCHANGED mergefixed

MergeNext ==
  \/ \E i \in MergeIds, j \in MergeIds : MergeSwap(i, j)
  \/ \E i \in MergeIds : MergeGetOnConflict(i)
  \/ \E i \in MergeIds, o \in Policies : MergeSetOnConflict(i, o)

\* ================================================== nil fields
\* the fields of the receivers that can be nil
NilFields == {"Dependency", "Provisioner", "ProvisionedHost", "Network", "Team"}

\* the Swap operands: a nil interface, a nil pointer of the receiver's kind,
\* an object of the receiver's kind, an object of another kind
SwapOperands == {"nil", "nilptr", "same", "other"}

CoreOps == {"Metadata.Label", "Metadata.Hash", "Metadata.CalculateChecksum",
            "ProvisioningStep.Hash", "ProvisioningStep.SetID",
            "ProvisionedNetwork.Hash", "ProvisionedNetwork.SetID", "Swap"}

\* what an operation dereferences, or calls a method of that reads its
\* receiver: the interface values Dependency and Provisioner, the pointers
\* the methods of Network read, the Swap operand in *recv = *rawVal
Derefs(op, in) ==
  CASE op = "Metadata.Label" -> {}
    [] op = "Metadata.Hash" -> IF in.ChecksumZero THEN {"Dependency"} ELSE {}
    [] op = "Metadata.CalculateChecksum" -> {"Dependency"}
    [] op = "ProvisioningStep.Hash" -> {"Provisioner"}
    [] op = "ProvisioningStep.SetID" -> IF in.IDEmpty THEN {"Provisioner"} ELSE {}
    [] op = "ProvisionedNetwork.Hash" -> {"Network"}
    [] op = "ProvisionedNetwork.SetID" ->
         IF in.IDEmpty \/ in.NetworkIDEmpty THEN {"Network"} ELSE {}
    [] op = "Swap" -> IF in.Operand = "nilptr" THEN {"Operand"} ELSE {}

\* the pointers an operation calls a method of whose code is elsewhere
\* (ProvisionedHost.Path, Team.Path, Team.Hash): the method may read its nil
\* receiver or not
CallsOn(op, in) ==
  CASE op = "ProvisioningStep.SetID" -> IF in.IDEmpty THEN {"ProvisionedHost"} ELSE {}
    [] op = "ProvisionedNetwork.Hash" -> {"Team"}
    [] op = "ProvisionedNetwork.SetID" -> IF in.IDEmpty THEN {"Team"} ELSE {}
    [] OTHER -> {}

\* the ways an operation can end on an input
Endings(op, in) ==
  LET nils == in.Nil \cup (IF in.Operand = "nilptr" THEN {"Operand"} ELSE {})
  IN IF op = "Metadata.Label" /\ "Dependency" \in in.Nil THEN {"panic"}
     ELSE IF Derefs(op, in) \cap nils # {} THEN {"panic"}
     ELSE (IF CallsOn(op, in) \cap nils # {} THEN {"panic"} ELSE {})
            \cup {IF op = "Swap" /\ in.Operand \in {"nil", "other"}
                    THEN "error" ELSE "returned"}

NoNilCall == [op |-> "none", out |-> "none"]

NilInit ==
  /\ nilin \in [Nil : SUBSET NilFields, IDEmpty : BOOLEAN, NetworkIDEmpty : BOOLEAN,
                ChecksumZero : BOOLEAN, Operand : SwapOperands]
  /\ nilcall = NoNilCall

NilIdle ==
  /\ nilin = [Nil |-> {}, IDEmpty |-> FALSE, NetworkIDEmpty |-> FALSE,
              ChecksumZero |-> FALSE, Operand |-> "same"]
  /\ nilcall = NoNilCall

\* an operation is called on the input
CallCore(op) ==
  /\ \E out \in Endings(op, nilin) : nilcall' = [op |-> op, out |-> out]
  /\ UNCHANGED <<nilfixed, nilin>>

NilNext == \E op \in CoreOps : CallCore(op)

\* ----- the shape of a path: IsGlobalType and GetTeamIDFromPath
MaxSegs == 3
MaxTeamSegs == 6

\* IsGlobalType
IsGlobalType(p) ==
  LET t == TypeByPath(p)
  IN CASE t = "competition" -> TRUE
       [] t \in {"command", "network", "host", "dns_record", "remote_file", "script"} -> TRUE
       [] t \in {"environment", "team", "provisioned_network", "provisioned_host",
                 "provisioning_step", "unknown"} -> FALSE
       [] OTHER -> FALSE

\* GetTeamIDFromPath that asks for five elements only
GetTeamIDOfFive(p) ==
  LET pelms == SplitBy(p, "/")
  IN IF ~PathIsAbs(p) THEN [id |-> <<>>, err |-> "not absolute"]
     ELSE IF Len(pelms) < 5 THEN [id |-> <<>>, err |-> "too short"]
     ELSE IF pelms[2] # Seg.envs THEN [id |-> <<>>, err |-> "not rooted"]
     ELSE [id |-> JoinBy(SubSeq(pelms, 1, IF Len(pelms) < 6 THEN Len(pelms) ELSE 6), "/"),
           err |-> "nil"]

\* GetTeamIDFromPath: the ID and the error it returns
GetTeamIDFromPath(p) ==
  LET pelms == SplitBy(p, "/")
  IN IF ~PathIsAbs(p) THEN [id |-> <<>>, err |-> "not absolute"]
     ELSE IF Len(pelms) < 6 THEN [id |-> <<>>, err |-> "too short"]
     ELSE IF pelms[2] # Seg.envs THEN [id |-> <<>>, err |-> "not rooted"]
     ELSE [id |-> JoinBy(SubSeq(pelms, 1, 6), "/"), err |-> "nil"]

\* the paths of up to n elements drawn from segs, with and without the leading slash
PathsOver(segs, n) ==
  LET lists == UNION {[1..k -> segs] : k \in 0..n}
  IN {<<"/">> \o JoinBy(l, "/") : l \in lists} \cup {JoinBy(l, "/") : l \in lists}

ShapeSegs ==
  {Seg.envs, Seg.teams, Seg.networks, Seg.hosts, Seg.steps, Seg.conn, Seg.commands, <<"x">>}

\* the segments of the paths a team ID is asked of; the empty one gives "//" and a trailing slash
TeamSegs == {Seg.envs, Seg.teams, <<"x">>, <<".", ".">>, <<>>}

ShapePaths == PathsOver(ShapeSegs, MaxSegs)

TeamIDPaths == PathsOver(TeamSegs, MaxTeamSegs)

\* a path to ask about, and nothing asked yet
ShapeInit ==
  /\ idkind = "Connection"
  /\ idobj = FreshObject("Connection", <<"x">>, <<"x">>, <<"x">>, 0)
  /\ idLast = NoIDOp
  /\ idPrev = NoIDOp
  /\ idSynth = <<>>
  /\ idQuery \in {[NoQuery EXCEPT !.path = p] : p \in ShapePaths \cup TeamIDPaths}

\* IsGlobalType(p), with the type it switches on
CallIsGlobalType ==
  /\ idQuery.fn = "none"
  /\ idQuery.path \in ShapePaths
  /\ LET p == idQuery.path
     IN idQuery' = [fn |-> "IsGlobalType", of |-> "path", path |-> p,
                    parent |-> <<>>, type |-> TypeByPath(p), global |-> IsGlobalType(p)]
  /\ UNCHANGED <<idfixed, idkind, idobj, idLast, idPrev, idSynth>>

\* GetTeamIDFromPath(p), and the kind its result has by TypeByPath
CallGetTeamIDFromPath ==
  /\ idQuery.fn = "none"
  /\ idQuery.path \in TeamIDPaths
  /\ LET p == idQuery.path
         r == GetTeamIDFromPath(p)
     IN idQuery' = [fn |-> "GetTeamIDFromPath", of |-> "path", path |-> p,
                    parent |-> r.id,
                    type |-> IF r.err = "nil" THEN TypeByPath(r.id) ELSE "none",
                    err |-> r.err]
  /\ UNCHANGED <<idfixed, idkind, idobj, idLast, idPrev, idSynth>>

ShapeNext ==
  \/ CallIsGlobalType
  \/ CallGetTeamIDFromPath

\* the later parts when a behaviour is not about them
LaterIdle == SSHInit /\ HashIdle /\ MetaIdle /\ ValIdle /\ IDIdle /\ MergeIdle /\ NilIdle

\* ================================================== specifications
\* the upload-execute-delete workflow with its goroutines
Init == WfInit /\ PathIdle /\ ConnIdle /\ LaterIdle

Spec == Init /\ [][Next]_vars

\* the steps of the calling goroutine
CallerStep ==
  \/ Begin
  \/ PerformInTimeoutStart
  \/ PerformInTimeoutReceive
  \/ PerformInTimeoutDeadline
  \/ CheckErr
  \/ CheckUploadSSH
  \/ CheckExitError
  \/ CheckProvisionedHost
  \/ ReturnErr
  \/ JoinStdout
  \/ JoinStderr
  \/ JoinWait
  \/ V2Config
  \/ V2OpenStderrLog
  \/ V2OpenStdoutLog
  \/ V2New
  \/ V2Provisioned
  \/ V2CloseStderrPipe
  \/ V2CloseStdoutPipe

\* the steps of the goroutine of a bounded step, the return of its remote
\* call among them
GoroutineStep(s) ==
  \/ OpenStderrLog(s)
  \/ OpenStdoutLog(s)
  \/ \E o \in {Nil, Err("E"), Err("X1"), Err("X2")} : CallReturn(s, o)
  \/ WriteSharedErr(s)
  \/ SendResult(s)
  \/ s = "execute" /\ (CloseStderrPipe \/ CloseStdoutPipe)

\* the steps of a scanner goroutine
DrainStep(stream) ==
  \/ Deliver(stream)
  \/ ScanEOF(stream)
  \/ WgDone(stream)

\* every goroutine that can take a step takes one, and every remote call
\* returns; a remote command need not write another line
Fairness ==
  /\ WF_vars(CallerStep)
  /\ \A s \in Goroutines : WF_vars(GoroutineStep(s))
  /\ \A stream \in Streams : WF_vars(DrainStep(stream))

\* the workflow under a scheduler that lets every goroutine run
SpecLive == Init /\ [][Next]_vars /\ Fairness

\* the names and remote paths of a workflow call
InitPath ==
  /\ version = "v1"
  /\ transport \in {"winrm", "ssh"}
  /\ scriptOK = TRUE
  /\ logdirOK = TRUE
  /\ ph = "ok"
  /\ WfStart
  /\ PathInit
  /\ ConnIdle
  /\ LaterIdle

SpecPath == InitPath /\ [][PathNext]_vars

\* Connection objects under the Mergeable operations and the dispatch
InitConn ==
  /\ version = "v1"
  /\ transport = "ssh"
  /\ scriptOK = TRUE
  /\ logdirOK = TRUE
  /\ ph = "ok"
  /\ WfStart
  /\ PathIdle
  /\ ConnInit
  /\ LaterIdle

SpecConn == InitConn /\ [][ConnNext]_vars

\* the SSH operations of a Connection, one after another
InitSSH ==
  /\ version = "v1"
  /\ transport = "ssh"
  /\ scriptOK = TRUE
  /\ logdirOK = TRUE
  /\ ph = "ok"
  /\ WfStart
  /\ PathIdle
  /\ ConnIdle
  /\ SSHInit
  /\ HashIdle
  /\ MetaIdle
  /\ ValIdle
  /\ IDIdle
  /\ MergeIdle
  /\ NilIdle

SpecSSH == InitSSH /\ [][SSHNext]_vars

\* Hash() on two objects of one kind
InitHash ==
  /\ version = "v1"
  /\ transport = "ssh"
  /\ scriptOK = TRUE
  /\ logdirOK = TRUE
  /\ ph = "ok"
  /\ WfStart
  /\ PathIdle
  /\ ConnIdle
  /\ SSHInit
  /\ HashInit
  /\ MetaIdle
  /\ ValIdle
  /\ IDIdle
  /\ MergeIdle
  /\ NilIdle

SpecHash == InitHash /\ [][HashNext]_vars

\* a Metadata under Hash, CalculateChecksum, changes of the wrapped object
\* and resets of the checksum
InitMeta ==
  /\ version = "v1"
  /\ transport = "ssh"
  /\ scriptOK = TRUE
  /\ logdirOK = TRUE
  /\ ph = "ok"
  /\ WfStart
  /\ PathIdle
  /\ ConnIdle
  /\ SSHInit
  /\ HashIdle
  /\ MetaInit
  /\ ValIdle
  /\ IDIdle
  /\ MergeIdle
  /\ NilIdle

SpecMeta == InitMeta /\ [][MetaNext]_vars

\* ValidatePath on one path
InitVal ==
  /\ version = "v1"
  /\ transport = "ssh"
  /\ scriptOK = TRUE
  /\ logdirOK = TRUE
  /\ ph = "ok"
  /\ WfStart
  /\ PathIdle
  /\ ConnIdle
  /\ SSHInit
  /\ HashIdle
  /\ MetaIdle
  /\ ValInit
  /\ IDIdle
  /\ MergeIdle
  /\ NilIdle

SpecVal == InitVal /\ [][ValNext]_vars

\* SetID, TypeByPath and ParentLaforgeID on an object under any team,
\* network and host
InitType ==
  /\ version = "v1"
  /\ transport = "ssh"
  /\ scriptOK = TRUE
  /\ logdirOK = TRUE
  /\ ph = "ok"
  /\ WfStart
  /\ PathIdle
  /\ ConnIdle
  /\ SSHInit
  /\ HashIdle
  /\ MetaIdle
  /\ ValIdle
  /\ TypeInit
  /\ MergeIdle
  /\ NilIdle

SpecType == InitType /\ [][TypeNext]_vars

\* SetID and the clearing of the ID on a loaded object
InitID ==
  /\ version = "v1"
  /\ transport = "ssh"
  /\ scriptOK = TRUE
  /\ logdirOK = TRUE
  /\ ph = "ok"
  /\ WfStart
  /\ PathIdle
  /\ ConnIdle
  /\ SSHInit
  /\ HashIdle
  /\ MetaIdle
  /\ ValIdle
  /\ IDInit
  /\ MergeIdle
  /\ NilIdle

SpecID == InitID /\ [][IDNext]_vars

\* a ProvisioningStep whose Provisioner is replaced, that is swapped and
\* given its ID
InitStep ==
  /\ version = "v1"
  /\ transport = "ssh"
  /\ scriptOK = TRUE
  /\ logdirOK = TRUE
  /\ ph = "ok"
  /\ WfStart
  /\ PathIdle
  /\ ConnIdle
  /\ SSHInit
  /\ HashIdle
  /\ MetaIdle
  /\ ValIdle
  /\ StepInit
  /\ MergeIdle
  /\ NilIdle

SpecStep == InitStep /\ [][StepNext]_vars

\* Swap, GetOnConflict and SetOnConflict on two Mergeable objects
InitMerge ==
  /\ version = "v1"
  /\ transport = "ssh"
  /\ scriptOK = TRUE
  /\ logdirOK = TRUE
  /\ ph = "ok"
  /\ WfStart
  /\ PathIdle
  /\ ConnIdle
  /\ SSHInit
  /\ HashIdle
  /\ MetaIdle
  /\ ValIdle
  /\ IDIdle
  /\ MergeInit
  /\ NilIdle

SpecMerge == InitMerge /\ [][MergeNext]_vars

\* the core operations on receivers with nil fields
InitNil ==
  /\ version = "v1"
  /\ transport = "ssh"
  /\ scriptOK = TRUE
  /\ logdirOK = TRUE
  /\ ph = "ok"
  /\ WfStart
  /\ PathIdle
  /\ ConnIdle
  /\ SSHInit
  /\ HashIdle
  /\ MetaIdle
  /\ ValIdle
  /\ IDIdle
  /\ MergeIdle
  /\ NilInit

SpecNil == InitNil /\ [][NilNext]_vars

\* the questions asked of a path alone
InitShape ==
  /\ version = "v1"
  /\ transport = "ssh"
  /\ scriptOK = TRUE
  /\ logdirOK = TRUE
  /\ ph = "ok"
  /\ WfStart
  /\ PathIdle
  /\ ConnIdle
  /\ SSHInit
  /\ HashIdle
  /\ MetaIdle
  /\ ValIdle
  /\ ShapeInit
  /\ MergeIdle
  /\ NilIdle

SpecShape == InitShape /\ [][ShapeNext]_vars

\* ------------------------------------------------- workflow properties
\* the remote operation of step s is in progress
Active(s) == g[s].st \in {"open1", "open2", "call"}

\* the remote operation of step s has returned
Completed(s) == g[s].st \in {"wr", "snd", "cl1", "cl2", "done"}

Started(s) == g[s].st # "idle"

LaterSteps(s) ==
  CASE s = "upload" -> {"execute", "delete"}
    [] s = "execute" -> {"delete"}
    [] s = "delete" -> {}

Returning == pc \in {"retread", "join1", "join2", "join3", "returned"}

\* C1: upload has completed before execute starts, execute has completed
\* before delete starts, and no two of the three steps are ever in progress
\* at the same time
C1_StepOrder ==
  /\ Started("execute") => Completed("upload")
  /\ Started("delete") => Completed("execute")
  /\ Cardinality({s \in Steps : Active(s)}) <= 1

C1_Witness ==
  /\ Active("delete")
  /\ Completed("upload")
  /\ Completed("execute")

\* C2: when the call has returned (no deadline having fired), every line a
\* step wrote to stdout has been given to StandardOutput once and in order,
\* every stderr line to StandardError, and nothing else
C2_AllLinesDelivered ==
  pc = "returned" /\ fired = {} =>
    \A stream \in Streams : calls[stream] = written[stream]

\* C3: once the scanner goroutines run, the call does not return before both
\* have sent their completion signal and called wg.Done
C3_JoinBarrier ==
  pc \in {"returned", "crashed"} =>
    \A stream \in Streams : drain[stream] \in {"notstarted", "done"}

C3_Witness ==
  /\ pc = "returned"
  /\ result # Nil
  /\ \A stream \in Streams : drain[stream] = "done"

\* the remote call of step s failed with an error that is not tolerated and
\* the caller did not give up on its deadline
FailedInTime(s) ==
  /\ Completed(s)
  /\ g[s].out # Nil
  /\ ~(s = "upload" /\ transport = "ssh" /\ Tolerated(g[s].out))
  /\ s \notin fired

\* C4: a step that fails with a not tolerated error aborts the workflow: no
\* later step is issued and the call returns that error
C4_ErrorAborts ==
  \A s \in Steps :
    FailedInTime(s) =>
      /\ \A t \in LaterSteps(s) : ~Started(t)
      /\ ~(ENABLED Next) => pc = "returned" /\ result = NewTimeoutExtension(g[s].out)

\* C5: on the SSH path a tolerated upload error does not end the workflow:
\* the caller goes on to the execute step
C5_ToleratedProceeds ==
  ~ /\ version = "v1" /\ transport = "ssh" /\ ph = "ok"
    /\ Completed("upload")
    /\ Tolerated(g["upload"].out)
    /\ "upload" \notin fired
    /\ Returning
    /\ ~Started("execute")

\* C6: with a missing script file or log directory the call returns an error
\* and nothing has been started: no remote call, no scanner goroutine, no log
\* file
C6_FailFast ==
  (~scriptOK \/ ~logdirOK) =>
    /\ \A s \in Goroutines : ~Started(s)
    /\ \A stream \in Streams : drain[stream] = "notstarted"
    /\ ~filesCreated
    /\ pc # "start" => pc = "returned" /\ result = Err("STAT")

C6_Witness ==
  /\ pc = "returned"
  /\ scriptOK
  /\ ~logdirOK

\* C7: after the deadline of a step has fired no later step is issued and the
\* call reports an error, whatever the step's goroutine does afterwards
C7_TimeoutAborts ==
  \A s \in fired :
    /\ \A t \in LaterSteps(s) : ~Started(t)
    /\ pc \in {"join1", "join2", "join3", "returned"} /\ ~panicking => result # Nil
\* ------------------------------------------------ names and paths
\* a file name: one path element that is neither "." nor ".."
PlainName(n) ==
  /\ n \notin {<<>>, <<".">>, <<".", ".">>}
  /\ \A i \in 1..Len(n) : n[i] \notin {UnixSeparator, WindowsSeparator}

\* the name with its extension stripped
StripExt(n) == SubSeq(n, 1, Len(n) - Len(Ext(UnixSeparator, n)))

\* the places where sub occurs in s
Occurrences(s, sub) ==
  {i \in 1..(Len(s) - Len(sub) + 1) : SubSeq(s, i, i + Len(sub) - 1) = sub}

\* the remote file name the call uses
RemoteName == IF tmpname # <<>> THEN tmpname ELSE Base(UnixSeparator, scriptsrc)

\* the remote path as the text <prefix><separator><filename>
NamedPath ==
  IF transport = "winrm" THEN DriveC \o <<WindowsSeparator>> \o RemoteName
  ELSE RootDir \o <<UnixSeparator>> \o RemoteName

\* two paths that name the same file
SameFile(sep, vol, p, q) == Clean(sep, vol, p) = Clean(sep, vol, q)

\* C8: upload, execute and delete name one remote path; it is C:\<filename>
\* over WinRM and /root/<filename> otherwise, <filename> being tmpname if not
\* empty and else the basename of the script; the command executed is that
\* path and the delete targets it
C8_RemotePath ==
  Len(remoteCalls) = 3 =>
    LET p == remoteCalls[1].arg
    IN /\ remoteCalls[1].op = "upload"
       /\ remoteCalls[2] = [op |-> "execute", arg |-> p]
       /\ remoteCalls[3] = IF transport = "winrm"
                             THEN [op |-> "execute", arg |-> DelCommand \o p]
                             ELSE [op |-> "delete", arg |-> p]
       /\ PlainName(RemoteName) => p = NamedPath
       /\ IF transport = "winrm"
            THEN SameFile(WindowsSeparator, DriveC, p, NamedPath)
            ELSE SameFile(UnixSeparator, <<>>, p, NamedPath)

C8_Witness ==
  /\ Len(remoteCalls) = 3
  /\ transport = "winrm"
  /\ PlainName(tmpname)
  /\ tmpname # Base(UnixSeparator, scriptsrc)

LogDirText == TrimTrailing(logdir, UnixSeparator)

\* C9 as stated: the log files are <logdir>/<stem>.stdout.log and
\* <logdir>/<stem>.stderr.log, <stem> being the basename of the script source
\* without its extension, whatever tmpname is (read for a script and a
\* tmpname that are file names with a stem)
C9_StemOfSource ==
  /\ derived # NoNames
  /\ PlainName(Base(UnixSeparator, scriptsrc))
  /\ PlainName(StripExt(Base(UnixSeparator, scriptsrc)))
  /\ tmpname = <<>> \/ (PlainName(tmpname) /\ PlainName(StripExt(tmpname)))
  =>
    LET stem == StripExt(Base(UnixSeparator, scriptsrc))
    IN /\ derived.stdoutfile = LogDirText \o <<UnixSeparator>> \o stem \o StdoutLogSuffix
       /\ derived.stderrfile = LogDirText \o <<UnixSeparator>> \o stem \o StderrLogSuffix

\* C9 amended: the stem comes from the remote file name (tmpname if not
\* empty, else the basename of the script source): it is that name with its
\* extension stripped when the extension text occurs in it once; the log
\* files are <logdir>/<stem>.stdout.log and <logdir>/<stem>.stderr.log for a
\* stem that is a file name, and <logdir>.stdout.log and <logdir>.stderr.log
\* for an empty stem
C9_LogNames ==
  derived # NoNames =>
    LET ext == Ext(UnixSeparator, RemoteName)
        stem == derived.logfilename
    IN /\ derived.filename = RemoteName
       /\ Cardinality(Occurrences(RemoteName, ext)) = 1 \/ ext = <<>>
            => stem = StripExt(RemoteName)
       /\ PlainName(stem) =>
            /\ derived.stdoutfile = LogDirText \o <<UnixSeparator>> \o stem \o StdoutLogSuffix
            /\ derived.stderrfile = LogDirText \o <<UnixSeparator>> \o stem \o StderrLogSuffix
       /\ stem = <<>> =>
            /\ derived.stdoutfile = LogDirText \o StdoutLogSuffix
            /\ derived.stderrfile = LogDirText \o StderrLogSuffix

C9_Witness ==
  /\ derived # NoNames
  /\ tmpname # <<>>
  /\ PlainName(derived.logfilename)
  /\ Cardinality(Occurrences(tmpname, Ext(UnixSeparator, tmpname))) = 1
  /\ derived.logfilename # StripExt(Base(UnixSeparator, scriptsrc))

C11_ClientsClosed ==
  /\ sshpc = "idle" => sshOpen = 0
  /\ sshOpen <= 1

C11_Witness ==
  /\ sshpc = "idle"
  /\ sshDone = MaxOps
  /\ sshLast.connected
  /\ sshLast.err = "use"
  /\ sshOpen = 0
\* ------------------------------------------------------ checksums
\* the fields in which two objects differ
Differing == {f \in Fields(hkind) : hx[f] # hy[f]}

\* C12: two objects of one kind that differ in nothing but their ID and
\* Caller have the same checksum
C12_IdentityNotHashed ==
  hsum # <<>> /\ Differing \subseteq IdentityFields => hsum[1] = hsum[2]

\* C13: two objects of one kind that differ in a field of their content have
\* different formatted strings, hence different checksums
C13_ContentDetermined ==
  hsum # <<>> /\ Differing \ IdentityFields # {} => hsum[1] # hsum[2]
\* ------------------------------------------------------- Metadata
\* C14 as stated: once CalculateChecksum has run (and the checksum has not
\* been reset since), Hash() returns the stored checksum and does not call
\* the wrapped object's Hash(); otherwise Hash() returns the wrapped object's
\* current hash
C14_MemoizedOnceCalculated ==
  mLast.op = "Hash" =>
    IF mLast.memo
      THEN ~mLast.called /\ mLast.ret = mLast.before
      ELSE mLast.ret = mLast.dep

\* C14 amended: Hash() returns the stored checksum without calling the
\* wrapped object's Hash() exactly when the stored checksum is not zero,
\* whatever the wrapped object has become; when it is zero (never computed,
\* reset, or computed as zero) Hash() calls the wrapped object's Hash(),
\* stores and returns its current value
C14_MemoizedWhileNonZero ==
  mLast.op = "Hash" =>
    IF mLast.before # 0
      THEN ~mLast.called /\ mLast.ret = mLast.before
      ELSE mLast.called /\ mLast.ret = mLast.dep

C14_Witness ==
  /\ mLast.op = "Hash"
  /\ mLast.memo
  /\ mLast.before # 0
  /\ mLast.dep # mLast.before
  /\ mLast.ret = mLast.before
\* ------------------------------------------------ path validation
EndsInSlash(p) == p # <<>> /\ p[Len(p)] = "/"

HasInvalidChar(p) == \E i \in 1..Len(p) : p[i] \notin PathChars

\* C15: validation rejects the empty path, a path with a trailing slash, a
\* path with two consecutive slashes and a path with an uppercase or other
\* disallowed character; it accepts the three sample paths; and it leaves the
\* path as it was
C15_Rejects ==
  verr # "unset" =>
    /\ vpath = <<>> => verr # "nil"
    /\ EndsInSlash(vpath) => verr # "nil"
    /\ ConsecutiveSlashRegexp(vpath) => verr # "nil"
    /\ HasInvalidChar(vpath) => verr # "nil"
    /\ vpath \in SamplePaths => verr = "nil"
    /\ vpath = vorig

C15_Witness ==
  /\ verr = "nil"
  /\ vpath \in SamplePaths
  /\ Len(vpath) > 20

\* C16: validation names the rule that is violated: a path whose only fault
\* is its trailing slash gives ErrPathEndsInSlash, one whose only fault is
\* two consecutive slashes gives ErrPathContainsDuplicateSlash, and one whose
\* only fault is a disallowed character gives ErrPathContainsInvalidChars
C16_ErrorPerRule ==
  verr # "unset" =>
    /\ EndsInSlash(vpath) /\ ~ConsecutiveSlashRegexp(vpath) /\ ~HasInvalidChar(vpath)
         => verr = "ErrPathEndsInSlash"
    /\ ConsecutiveSlashRegexp(vpath) /\ ~EndsInSlash(vpath) /\ ~HasInvalidChar(vpath)
         => verr = "ErrPathContainsDuplicateSlash"
    /\ HasInvalidChar(vpath) /\ ~EndsInSlash(vpath) /\ ~ConsecutiveSlashRegexp(vpath)
         => verr = "ErrPathContainsInvalidChars"


\* TypeByPath of a sample path or of a path under a global first element
ClassifiedAsListed(q) ==
  /\ \A i \in DOMAIN SampleIDPaths :
       q.path = SampleIDPaths[i] => q.type = SampleIDTypes[i]
  /\ \A i \in DOMAIN GlobalSegments :
       SplitBy(q.path, "/")[2] = GlobalSegments[i] => q.type = GlobalTypes[i]

\* C17: TypeByPath gives a path under scripts, networks, hosts, commands,
\* dns-records or files the global kind of that element, gives the three
\* sample paths the kinds ProvisionedHost, ProvisioningStep and Connection,
\* and gives every ID made by SetID the kind of the object that made it.
C17_SetIDClassifiedAsOwnKind ==
  idQuery.fn = "TypeByPath" =>
    IF idQuery.of = "path" THEN ClassifiedAsListed(idQuery)
    ELSE idQuery.type = LFTypeOf(idQuery.of)

\* the path of the Build a ProvisionedNetwork is in: the Build of its Team
OwningBuild(o) == PathDir(PathDir(o.Team))

C19_Idempotent ==
  /\ (idLast.op = "SetID" /\ idPrev.op = "SetID") =>
       /\ idLast.before = idPrev.after
       /\ idLast.after = idPrev.after
       /\ idLast.ret = idPrev.ret
  /\ Len(idSynth) = 2 => idSynth[1] = idSynth[2]

\* SetID made the ID, the ID was cleared, SetID made it again and was called
\* once more
C19_Witness ==
  /\ idLast.op = "SetID"
  /\ idPrev.op = "SetID"
  /\ Len(idSynth) = 2
  /\ idLast.ret = idSynth[1]
  /\ idkind = "ProvisioningStep"

\* the typed reference of a ProvisioningStep that goes with a provisioner kind
TypedRef(o, pkind) ==
  CASE pkind = "Command" -> o.Command
    [] pkind = "DNSRecord" -> o.DNSRecord
    [] pkind = "RemoteFile" -> o.RemoteFile
    [] pkind = "Script" -> o.Script

\* the last call was SetID on an object whose ID was not empty
SetIDOnNonEmpty == idLast.op = "SetID" /\ idLast.before.ID # <<>>

\* C20 as stated: SetID on an object whose ID is not empty changes no field
\* of the object.
C20_NoOpWhenIDSet == SetIDOnNonEmpty => idLast.after = idLast.before

\* C20: SetID on an object whose ID is not empty leaves the ID as it is and
\* returns it. A Connection is left unchanged. In a ProvisionedNetwork only
\* NetworkID can change, and only from empty to the path of the Network. In a
\* ProvisioningStep only the typed reference of the provisioner's kind can
\* change, and after the call it is the provisioner.
C20_IDKeptWhenSet ==
  SetIDOnNonEmpty =>
    LET b == idLast.before
        a == idLast.after
    IN /\ a.ID = b.ID
       /\ idLast.ret = b.ID
       /\ idkind = "Connection" => a = b
       /\ idkind = "ProvisionedNetwork" =>
            /\ [a EXCEPT !.NetworkID = b.NetworkID] = b
            /\ a.NetworkID = IF b.NetworkID = <<>> THEN b.Network ELSE b.NetworkID
       /\ idkind = "ProvisioningStep" =>
            /\ \A k \in ProvisionerKinds \ {b.Provisioner.kind} :
                 TypedRef(a, k) = TypedRef(b, k)
            /\ TypedRef(a, b.Provisioner.kind) = b.Provisioner.ptr
            /\ <<a.StepNumber, a.ProvisionedHost, a.Provisioner>>
                 = <<b.StepNumber, b.ProvisionedHost, b.Provisioner>>

\* SetID was called on a ProvisionedNetwork that had an ID and no NetworkID,
\* and it set the NetworkID
C20_Witness ==
  /\ SetIDOnNonEmpty
  /\ idkind = "ProvisionedNetwork"
  /\ idLast.before.ID = GivenID
  /\ idLast.before.NetworkID = <<>>
  /\ idLast.after.NetworkID = idLast.before.Network

\* the typed references of a step that are not nil
NonNilRefs(o) == {k \in ProvisionerKinds : TypedRef(o, k) # 0}

\* C21: whatever a ProvisioningStep has been through (a Provisioner assigned
\* or replaced, SetID, Swap), at most one of Command, DNSRecord, RemoteFile
\* and Script is not nil, and after SetID exactly one is not nil, the one of
\* the Provisioner's kind.
C21_AtMostOneTypedRef ==
  /\ Cardinality(NonNilRefs(idobj)) <= 1
  /\ idLast.op = "SetID" => NonNilRefs(idobj) = {idobj.Provisioner.kind}

\* C22: Swap with an operand of the receiver's kind makes every field of the
\* receiver (ID, Caller, OnConflict, nested pointers and the rest) equal to
\* the operand's, returns no error and leaves the operand as it was; Swap
\* with an operand of another kind returns ErrSwapTypeMismatch and changes
\* neither object.
C22_SwapReplacesOrRefuses ==
  mcall.op = "Swap" =>
    LET b == mcall.before
        i == mcall.recv
        j == mcall.arg
    IN IF b[i].kind = b[j].kind
         THEN /\ mcall.err = "nil"
              /\ \A f \in DOMAIN b[j] : mobjs[i][f] = b[j][f]
              /\ mobjs[j] = b[j]
         ELSE /\ mcall.err = "ErrSwapTypeMismatch"
              /\ mobjs = b

\* a Swap replaced a receiver that differed from the operand in every field
\* but the kind, the operand having an OnConflict and the receiver another
C22_Witness ==
  /\ mcall.op = "Swap"
  /\ mcall.err = "nil"
  /\ mcall.recv # mcall.arg
  /\ LET r == mcall.before[mcall.recv]
         o == mcall.before[mcall.arg]
     IN /\ \A f \in DOMAIN r \ {"kind"} : r[f] # o[f]
        /\ r.OnConflict # <<>>
        /\ o.OnConflict # <<>>
  /\ mobjs[mcall.recv] = mobjs[mcall.arg]

\* C27: GetOnConflict on an object with no OnConflict returns Do = "default"
\* with Append = TRUE for ProvisionedNetwork and ProvisioningStep and
\* Append = FALSE for Command, DNSRecord, Network, RemoteFile and Connection,
\* and changes nothing; after SetOnConflict(p) it returns p until the next
\* SetOnConflict or Swap on the object.
C27_GetOnConflict ==
  mcall.op = "GetOnConflict" =>
    LET o == mcall.before[mcall.recv]
        ret == mcall.ret[1]
    IN /\ mobjs = mcall.before
       /\ o.OnConflict = <<>> =>
            /\ ret.do = "default"
            /\ ret.append = (o.kind \in {"ProvisionedNetwork", "ProvisioningStep"})
       /\ mset[mcall.recv] # <<>> => ret = mset[mcall.recv][1]

\* GetOnConflict was called on a Network with no OnConflict
C27_Witness ==
  /\ mcall.op = "GetOnConflict"
  /\ mobjs[mcall.recv].kind = "Network"
  /\ mobjs[mcall.recv].OnConflict = <<>>
  /\ mcall.ret = <<[do |-> "default", append |-> FALSE]>>

\* C23: no core operation panics, whatever is nil in its input (the
\* Dependency of a Metadata, the Provisioner or ProvisionedHost of a
\* ProvisioningStep, the Network or Team of a ProvisionedNetwork, a Swap
\* operand that is a nil pointer of the right kind); the one exception is
\* Metadata.Label with a nil Dependency.
C23_OnlyLabelPanics ==
  nilcall.out = "panic" =>
    /\ nilcall.op = "Metadata.Label"
    /\ "Dependency" \in nilin.Nil

\* C24 as stated: Hash() and CalculateChecksum() call the wrapped object's
\* Hash() and overwrite the stored checksum only when the stored checksum is
\* zero at the time of the call.
C24_OverwrittenOnlyWhenZero ==
  (/\ mLast.op \in {"Hash", "CalculateChecksum"}
   /\ mLast.called \/ mChecksum # mLast.before) => mLast.before = 0

\* C24: Hash() calls the wrapped object's Hash() and overwrites the stored
\* checksum only when the stored checksum is zero at the time of the call;
\* CalculateChecksum() calls it and overwrites the stored checksum at every
\* call, zero or not.
C24_HashOnlyWhenZero ==
  /\ mLast.op = "Hash" =>
       /\ mLast.called <=> mLast.before = 0
       /\ mLast.before # 0 => mChecksum = mLast.before
  /\ mLast.op = "CalculateChecksum" =>
       /\ mLast.called
       /\ mChecksum = mLast.dep

\* CalculateChecksum replaced a checksum that was not zero by another
C24_Witness ==
  /\ mLast.op = "CalculateChecksum"
  /\ mLast.before # 0
  /\ mChecksum # mLast.before
  /\ mChecksum = mLast.dep

\* C25: when the file of a RemoteFile cannot be read, ResourceHash is the
\* sentinel, which is not zero, and Hash still gives a checksum; two
\* RemoteFiles that agree on every hashed field and both have an unreadable
\* file have the same checksum whatever their AbsPath.
C25_UnreadableFile ==
  (/\ hsum # <<>>
   /\ hkind = "RemoteFile"
   /\ hx.Content = <<>>) =>
     /\ ResourceHash(hx) = Sentinel
     /\ Sentinel # 0
     /\ hsum[1] = RemoteFileHash(hx)
     /\ (hy.Content = <<>> /\ Differing \subseteq IdentityFields) => hsum[1] = hsum[2]

\* two RemoteFiles with unreadable files at different paths were hashed
C25_Witness ==
  /\ hsum # <<>>
  /\ hkind = "RemoteFile"
  /\ hx.Content = <<>>
  /\ hy.Content = <<>>
  /\ hx.AbsPath # hy.AbsPath
  /\ hsum[1] = hsum[2]

\* the first segment of a path: the element after the leading slash, or the
\* first element of a path without one
FirstSegment(p) ==
  LET pelms == SplitBy(p, "/")
  IN IF PathIsAbs(p) THEN pelms[2] ELSE pelms[1]

EnvScopedTypes ==
  {"environment", "build", "team", "provisioned_network", "provisioned_host",
   "connection", "provisioning_step"}

\* C26: every path TypeByPath classifies as an environment-scoped kind is
\* absolute with first segment envs, IsGlobalType is false for it, and
\* IsGlobalType is true only for paths whose first segment is one of the six
\* global prefixes
C26_ScopedUnderEnvs ==
  idQuery.fn = "IsGlobalType" =>
    /\ idQuery.type \in EnvScopedTypes =>
         /\ PathIsAbs(idQuery.path)
         /\ FirstSegment(idQuery.path) = Seg.envs
         /\ ~idQuery.global
    /\ idQuery.global =>
         \E i \in DOMAIN GlobalSegments : FirstSegment(idQuery.path) = GlobalSegments[i]

\* the segments of a path: its elements after the leading slash
Segments(p) ==
  LET pelms == SplitBy(p, "/")
  IN IF PathIsAbs(p) THEN Tail(pelms) ELSE pelms

\* the first n segments of p behind a leading slash
FirstSegments(p, n) == <<"/">> \o JoinBy(SubSeq(Segments(p), 1, n), "/")

\* GetTeamIDFromPath fails for a path that is not absolute, has fewer than five
\* segments or does not start with envs, and what it returns otherwise is the
\* first five segments of p and a prefix of p
TeamIDShape(q) ==
  LET segs == Segments(q.path)
  IN /\ (~PathIsAbs(q.path) \/ Len(segs) < 5 \/ segs[1] # Seg.envs) => q.err # "nil"
     /\ q.err = "nil" =>
          /\ q.parent = FirstSegments(q.path, 5)
          /\ HasPrefix(q.path, q.parent)

\* five plain names, the fourth one teams and the third one not envs
UnderATeam(p) ==
  LET segs == Segments(p)
  IN /\ Len(segs) >= 5
     /\ \A i \in 1..5 : segs[i] \notin {<<>>, <<".">>, <<".", ".">>}
     /\ segs[4] = Seg.teams
     /\ segs[3] # Seg.envs

\* C30 as stated: whenever GetTeamIDFromPath(p) succeeds, what it returns is
\* the first five segments of p, a prefix of p, and a Team by TypeByPath; it
\* fails for every path that is not absolute, has fewer than five segments or
\* is not rooted at /envs
C30_TeamIDIsTeam ==
  idQuery.fn = "GetTeamIDFromPath" =>
    /\ TeamIDShape(idQuery)
    /\ idQuery.err = "nil" => idQuery.type = "team"

\* C30, amended: GetTeamIDFromPath(p) succeeds exactly when p is absolute, has
\* at least five segments and the first one is envs; what it returns is the
\* first five segments of p and a prefix of p, and TypeByPath classifies it as
\* Team when the five segments are plain names, the fourth one teams and the
\* third one not envs
C30_TeamIDUnderATeam ==
  idQuery.fn = "GetTeamIDFromPath" =>
    /\ TeamIDShape(idQuery)
    /\ idQuery.err = "nil" <=>
         (PathIsAbs(idQuery.path) /\ Len(Segments(idQuery.path)) >= 5
            /\ Segments(idQuery.path)[1] = Seg.envs)
    /\ (idQuery.err = "nil" /\ UnderATeam(idQuery.path)) => idQuery.type = "team"

\* the team ID of a longer path under a team
C30_Witness ==
  /\ idQuery.fn = "GetTeamIDFromPath"
  /\ idQuery.err = "nil"
  /\ UnderATeam(idQuery.path)
  /\ idQuery.type = "team"
  /\ Len(idQuery.path) > Len(idQuery.parent)

\* the errors of a transport that does not work, and of a source that is missing
TransportErrors == {"stat", "newclient", "connect", "use"}

\* C28: Upload of a source that is a directory succeeds on an SSH connection
\* (where Upload is UploadSFTP) whenever the transport works
C28_UploadDirSucceeds ==
  (/\ sshLast.op = "UploadSFTP"
   /\ sshLast.src = "dir"
   /\ sshLast.err \notin TransportErrors) => sshLast.err = "nil"

\* the scanner goroutines have been started
DrainsStarted == \A stream \in Streams : drain[stream] # "notstarted"

\* the call is over: it has returned, or a panic has left it, with both pipe
\* writers closed, both scanners at the end of their input and the join released
CallOver ==
  /\ pc \in {"returned", "crashed"}
  /\ \A stream \in Streams : pw[stream] = "closed" /\ drain[stream] = "done"

\* C29: a call that has started its scanner goroutines eventually returns with
\* both pipe writers closed, both scanner goroutines at the end of their input
\* and the deferred join released
C29_EventuallyReturns == DrainsStarted ~> CallOver

====
